---------------------------- MODULE Spec2Model ----------------------------
(***************************************************************************)
(* A model of the quantum-pqc scanner: the audit engine (src/src/audit.rs), *)
(* the AuditResult builder (src/src/types.rs) and the CCCS algorithm        *)
(* database queries (src/src/algorithm_database.rs).                        *)
(*                                                                         *)
(* Text is modelled as sequences of characters, one string a character (a  *)
(* character outside ASCII is a token naming its code point), so that the  *)
(* regular expressions, str::find, str::trim and str::to_lowercase of the  *)
(* source are computed character by character, with the UTF-8 width, the   *)
(* case mappings and the regex classes of each character.                  *)
(***************************************************************************)
EXTENDS Integers, Sequences, FiniteSets, TLC

VARIABLES
    source,         \* analyze: the source text given (see SourceText)
    language,       \* analyze: the language tag given, as characters
    outcome,        \* analyze: the Result returned, or NoOutcome before the call
    result,         \* an AuditResult under construction (types.rs builder)
    crypto_type,    \* pure-function calls: the CryptoType argument
    key_size,       \* pure-function calls: a key size (Option<u32> or u32)
    classification, \* pure-function calls: the SecurityClassification argument
    db,             \* the algorithm rows of ALGORITHM_DB (name -> cccs_status)
    answer,         \* pure-function calls: the values returned
    pc,             \* position of the caller
    cell,           \* the Lazy cells of the statics: state, counters, value
    threads,        \* concurrent callers: each thread's position and locals
    walk,           \* scan_directory: the files left, the results, the outcome
    dataset         \* the document data/cccs_algorithms.json the build embeds

vars == <<source, language, outcome, result, crypto_type, key_size,
          classification, db, answer, pc, cell, threads, walk,
          dataset>>

----------------------------------------------------------------------------
(* Option<T>: None is the empty tuple, Some(x) the one-element tuple.      *)
None == <<>>

Some(x) == <<x>>

IsSome(o) == Len(o) = 1

Unwrap(o) == o[1]

----------------------------------------------------------------------------
(* Characters.                                                             *)
UpperLetters == <<"A", "B", "C", "D", "E", "F", "G", "H", "I", "J", "K", "L", "M", "N", "O", "P", "Q", "R", "S", "T", "U", "V", "W", "X", "Y", "Z">>

LowerLetters == <<"a", "b", "c", "d", "e", "f", "g", "h", "i", "j", "k", "l", "m", "n", "o", "p", "q", "r", "s", "t", "u", "v", "w", "x", "y", "z">>

Digits == {"0", "1", "2", "3", "4", "5", "6", "7", "8", "9"}

Range(s) == {s[i] : i \in 1..Len(s)}

UpperSet == Range(UpperLetters)

LowerSet == Range(LowerLetters)

LetterSet == UpperSet \cup LowerSet

LowerOf == [c \in UpperSet |-> LowerLetters[CHOOSE i \in 1..26 : UpperLetters[i] = c]]

UpperOf == [c \in LowerSet |-> UpperLetters[CHOOSE i \in 1..26 : LowerLetters[i] = c]]

IsAsciiLetter(c) == c \in LetterSet

IsDigit(c) == c \in Digits

(* A char of the program is one string: an ASCII character stands for    *)
(* itself, any other character is the token "\\u" followed by the           *)
(* hexadecimal digits of its code point (four or more, in lower case); one  *)
(* token is one char of the text.  The properties of a character are read   *)
(* from its code point, in the tables of the standard library and of the    *)
(* regex crate.                                                             *)
KelvinSign == "\\u212a"

LongS == "\\u017f"

CapitalIDot == "\\u0130"

CombiningDot == "\\u0307"

SharpS == "\\u00df"

SmallEAcute == "\\u00e9"

CapitalEAcute == "\\u00c9"

ArabicZero == "\\u0660"

ArabicOne == "\\u0661"

NoBreakSpace == "\\u00a0"

NextLine == "\\u0085"

LineSeparator == "\\u2028"

EmSpace == "\\u2003"

IdeographicSpace == "\\u3000"

SmallNTilde == "\\u00f1"

CapitalAGrave == "\\u00c0"

SmallAGrave == "\\u00e0"

MicroSign == "\\u00b5"

EuroSign == "\\u20ac"

LigatureLongST == "\\ufb05"

LigatureST == "\\ufb06"

SmallHLineBelow == "\\u1e96"

SmallARightHalfRing == "\\u1e9a"

CapitalSigma == "\\u03a3"

SmallSigma == "\\u03c3"

SmallFinalSigma == "\\u03c2"

CjkMiddle == "\\u4e2d"

GrinningFace == "\\u1f600"

FormFeed == "\f"

VerticalTab == ""

\* the characters U+0000 to U+007F, in the order of their code points (a
\* control character without an escape, and the grave accent, which cannot
\* stand in a string of its own, are written as tokens)
ASCII ==
    << "\\u0000", "\\u0001", "\\u0002", "\\u0003", "\\u0004", "\\u0005", "\\u0006", "\\u0007", "\\u0008", "\t", "\n", "", "\f", "\r", "\\u000e", "\\u000f",
       "\\u0010", "\\u0011", "\\u0012", "\\u0013", "\\u0014", "\\u0015", "\\u0016", "\\u0017", "\\u0018", "\\u0019", "\\u001a", "\\u001b", "\\u001c", "\\u001d", "\\u001e", "\\u001f",
       " ", "!", "\"", "#", "$", "%", "&", "'", "(", ")", "*", "+", ",", "-", ".", "/",
       "0", "1", "2", "3", "4", "5", "6", "7", "8", "9", ":", ";", "<", "=", ">", "?",
       "@", "A", "B", "C", "D", "E", "F", "G", "H", "I", "J", "K", "L", "M", "N", "O",
       "P", "Q", "R", "S", "T", "U", "V", "W", "X", "Y", "Z", "[", "\\", "]", "^", "_",
       "\\u0060", "a", "b", "c", "d", "e", "f", "g", "h", "i", "j", "k", "l", "m", "n", "o",
       "p", "q", "r", "s", "t", "u", "v", "w", "x", "y", "z", "{", "|", "}", "~", "\\u007f" >>

HexDigits == <<"0", "1", "2", "3", "4", "5", "6", "7", "8", "9", "a", "b", "c", "d", "e", "f">>

\* the value of a hexadecimal digit
HexValue == [h \in {HexDigits[v] : v \in 1..16} |-> (CHOOSE v \in 1..16 : HexDigits[v] = h) - 1]

\* the value of the hexadecimal digit that stands k places before the last
\* character of the token c, 0 when the token has no such digit
HexAt(c, k) ==
    IF Len(c) - k < 3 THEN 0 ELSE HexValue[SubSeq(c, Len(c) - k, Len(c) - k)]

\* the hexadecimal digit of n of weight 16^k
HexOf(n, k) == HexDigits[((n \div (16 ^ k)) % 16) + 1]

\* char::from_u32: the char of a code point (at most U+10FFFF, six digits)
Char(cp) ==
    IF cp < 128 THEN ASCII[cp + 1]
    ELSE "\\u" \o (IF cp >= 1048576 THEN HexOf(cp, 5) ELSE "")
               \o (IF cp >= 65536 THEN HexOf(cp, 4) ELSE "")
               \o HexOf(cp, 3) \o HexOf(cp, 2) \o HexOf(cp, 1) \o HexOf(cp, 0)

\* char as u32: the code point of a char
CodePoint(c) ==
    IF Len(c) = 1 THEN CHOOSE n \in 0..127 : ASCII[n + 1] = c
    ELSE HexAt(c, 0) + 16 * HexAt(c, 1) + 256 * HexAt(c, 2) + 4096 * HexAt(c, 3)
         + 65536 * HexAt(c, 4) + 1048576 * HexAt(c, 5)

Chars(cps) == [i \in 1..Len(cps) |-> Char(cps[i])]

\* White_Space of Unicode (core::unicode::white_space), its 25 characters
WHITE_SPACE ==
    {"\t", "\n", "", "\f", "\r", " ", "\\u0085", "\\u00a0", "\\u1680",
     "\\u2000", "\\u2001", "\\u2002", "\\u2003", "\\u2004", "\\u2005", "\\u2006", "\\u2007", "\\u2008",
     "\\u2009", "\\u200a", "\\u2028", "\\u2029", "\\u202f", "\\u205f", "\\u3000"}

\* \w of the regex crate (PERL_WORD of regex-syntax, Unicode 16.0: Alphabetic, Mark,
\* Decimal_Number, Connector_Punctuation, Join_Control), as the ranges of code
\* points: first, last, first, last, ...
PERL_WORD ==
    << 48, 57, 65, 90, 95, 95, 97, 122, 170, 170, 181, 181,
       186, 186, 192, 214, 216, 246, 248, 705, 710, 721, 736, 740,
       748, 748, 750, 750, 768, 884, 886, 887, 890, 893, 895, 895,
       902, 902, 904, 906, 908, 908, 910, 929, 931, 1013, 1015, 1153,
       1155, 1327, 1329, 1366, 1369, 1369, 1376, 1416, 1425, 1469, 1471, 1471,
       1473, 1474, 1476, 1477, 1479, 1479, 1488, 1514, 1519, 1522, 1552, 1562,
       1568, 1641, 1646, 1747, 1749, 1756, 1759, 1768, 1770, 1788, 1791, 1791,
       1808, 1866, 1869, 1969, 1984, 2037, 2042, 2042, 2045, 2045, 2048, 2093,
       2112, 2139, 2144, 2154, 2160, 2183, 2185, 2190, 2199, 2273, 2275, 2403,
       2406, 2415, 2417, 2435, 2437, 2444, 2447, 2448, 2451, 2472, 2474, 2480,
       2482, 2482, 2486, 2489, 2492, 2500, 2503, 2504, 2507, 2510, 2519, 2519,
       2524, 2525, 2527, 2531, 2534, 2545, 2556, 2556, 2558, 2558, 2561, 2563,
       2565, 2570, 2575, 2576, 2579, 2600, 2602, 2608, 2610, 2611, 2613, 2614,
       2616, 2617, 2620, 2620, 2622, 2626, 2631, 2632, 2635, 2637, 2641, 2641,
       2649, 2652, 2654, 2654, 2662, 2677, 2689, 2691, 2693, 2701, 2703, 2705,
       2707, 2728, 2730, 2736, 2738, 2739, 2741, 2745, 2748, 2757, 2759, 2761,
       2763, 2765, 2768, 2768, 2784, 2787, 2790, 2799, 2809, 2815, 2817, 2819,
       2821, 2828, 2831, 2832, 2835, 2856, 2858, 2864, 2866, 2867, 2869, 2873,
       2876, 2884, 2887, 2888, 2891, 2893, 2901, 2903, 2908, 2909, 2911, 2915,
       2918, 2927, 2929, 2929, 2946, 2947, 2949, 2954, 2958, 2960, 2962, 2965,
       2969, 2970, 2972, 2972, 2974, 2975, 2979, 2980, 2984, 2986, 2990, 3001,
       3006, 3010, 3014, 3016, 3018, 3021, 3024, 3024, 3031, 3031, 3046, 3055,
       3072, 3084, 3086, 3088, 3090, 3112, 3114, 3129, 3132, 3140, 3142, 3144,
       3146, 3149, 3157, 3158, 3160, 3162, 3165, 3165, 3168, 3171, 3174, 3183,
       3200, 3203, 3205, 3212, 3214, 3216, 3218, 3240, 3242, 3251, 3253, 3257,
       3260, 3268, 3270, 3272, 3274, 3277, 3285, 3286, 3293, 3294, 3296, 3299,
       3302, 3311, 3313, 3315, 3328, 3340, 3342, 3344, 3346, 3396, 3398, 3400,
       3402, 3406, 3412, 3415, 3423, 3427, 3430, 3439, 3450, 3455, 3457, 3459,
       3461, 3478, 3482, 3505, 3507, 3515, 3517, 3517, 3520, 3526, 3530, 3530,
       3535, 3540, 3542, 3542, 3544, 3551, 3558, 3567, 3570, 3571, 3585, 3642,
       3648, 3662, 3664, 3673, 3713, 3714, 3716, 3716, 3718, 3722, 3724, 3747,
       3749, 3749, 3751, 3773, 3776, 3780, 3782, 3782, 3784, 3790, 3792, 3801,
       3804, 3807, 3840, 3840, 3864, 3865, 3872, 3881, 3893, 3893, 3895, 3895,
       3897, 3897, 3902, 3911, 3913, 3948, 3953, 3972, 3974, 3991, 3993, 4028,
       4038, 4038, 4096, 4169, 4176, 4253, 4256, 4293, 4295, 4295, 4301, 4301,
       4304, 4346, 4348, 4680, 4682, 4685, 4688, 4694, 4696, 4696, 4698, 4701,
       4704, 4744, 4746, 4749, 4752, 4784, 4786, 4789, 4792, 4798, 4800, 4800,
       4802, 4805, 4808, 4822, 4824, 4880, 4882, 4885, 4888, 4954, 4957, 4959,
       4992, 5007, 5024, 5109, 5112, 5117, 5121, 5740, 5743, 5759, 5761, 5786,
       5792, 5866, 5870, 5880, 5888, 5909, 5919, 5940, 5952, 5971, 5984, 5996,
       5998, 6000, 6002, 6003, 6016, 6099, 6103, 6103, 6108, 6109, 6112, 6121,
       6155, 6157, 6159, 6169, 6176, 6264, 6272, 6314, 6320, 6389, 6400, 6430,
       6432, 6443, 6448, 6459, 6470, 6509, 6512, 6516, 6528, 6571, 6576, 6601,
       6608, 6617, 6656, 6683, 6688, 6750, 6752, 6780, 6783, 6793, 6800, 6809,
       6823, 6823, 6832, 6862, 6912, 6988, 6992, 7001, 7019, 7027, 7040, 7155,
       7168, 7223, 7232, 7241, 7245, 7293, 7296, 7306, 7312, 7354, 7357, 7359,
       7376, 7378, 7380, 7418, 7424, 7957, 7960, 7965, 7968, 8005, 8008, 8013,
       8016, 8023, 8025, 8025, 8027, 8027, 8029, 8029, 8031, 8061, 8064, 8116,
       8118, 8124, 8126, 8126, 8130, 8132, 8134, 8140, 8144, 8147, 8150, 8155,
       8160, 8172, 8178, 8180, 8182, 8188, 8204, 8205, 8255, 8256, 8276, 8276,
       8305, 8305, 8319, 8319, 8336, 8348, 8400, 8432, 8450, 8450, 8455, 8455,
       8458, 8467, 8469, 8469, 8473, 8477, 8484, 8484, 8486, 8486, 8488, 8488,
       8490, 8493, 8495, 8505, 8508, 8511, 8517, 8521, 8526, 8526, 8544, 8584,
       9398, 9449, 11264, 11492, 11499, 11507, 11520, 11557, 11559, 11559, 11565, 11565,
       11568, 11623, 11631, 11631, 11647, 11670, 11680, 11686, 11688, 11694, 11696, 11702,
       11704, 11710, 11712, 11718, 11720, 11726, 11728, 11734, 11736, 11742, 11744, 11775,
       11823, 11823, 12293, 12295, 12321, 12335, 12337, 12341, 12344, 12348, 12353, 12438,
       12441, 12442, 12445, 12447, 12449, 12538, 12540, 12543, 12549, 12591, 12593, 12686,
       12704, 12735, 12784, 12799, 13312, 19903, 19968, 42124, 42192, 42237, 42240, 42508,
       42512, 42539, 42560, 42610, 42612, 42621, 42623, 42737, 42775, 42783, 42786, 42888,
       42891, 42957, 42960, 42961, 42963, 42963, 42965, 42972, 42994, 43047, 43052, 43052,
       43072, 43123, 43136, 43205, 43216, 43225, 43232, 43255, 43259, 43259, 43261, 43309,
       43312, 43347, 43360, 43388, 43392, 43456, 43471, 43481, 43488, 43518, 43520, 43574,
       43584, 43597, 43600, 43609, 43616, 43638, 43642, 43714, 43739, 43741, 43744, 43759,
       43762, 43766, 43777, 43782, 43785, 43790, 43793, 43798, 43808, 43814, 43816, 43822,
       43824, 43866, 43868, 43881, 43888, 44010, 44012, 44013, 44016, 44025, 44032, 55203,
       55216, 55238, 55243, 55291, 63744, 64109, 64112, 64217, 64256, 64262, 64275, 64279,
       64285, 64296, 64298, 64310, 64312, 64316, 64318, 64318, 64320, 64321, 64323, 64324,
       64326, 64433, 64467, 64829, 64848, 64911, 64914, 64967, 65008, 65019, 65024, 65039,
       65056, 65071, 65075, 65076, 65101, 65103, 65136, 65140, 65142, 65276, 65296, 65305,
       65313, 65338, 65343, 65343, 65345, 65370, 65382, 65470, 65474, 65479, 65482, 65487,
       65490, 65495, 65498, 65500, 65536, 65547, 65549, 65574, 65576, 65594, 65596, 65597,
       65599, 65613, 65616, 65629, 65664, 65786, 65856, 65908, 66045, 66045, 66176, 66204,
       66208, 66256, 66272, 66272, 66304, 66335, 66349, 66378, 66384, 66426, 66432, 66461,
       66464, 66499, 66504, 66511, 66513, 66517, 66560, 66717, 66720, 66729, 66736, 66771,
       66776, 66811, 66816, 66855, 66864, 66915, 66928, 66938, 66940, 66954, 66956, 66962,
       66964, 66965, 66967, 66977, 66979, 66993, 66995, 67001, 67003, 67004, 67008, 67059,
       67072, 67382, 67392, 67413, 67424, 67431, 67456, 67461, 67463, 67504, 67506, 67514,
       67584, 67589, 67592, 67592, 67594, 67637, 67639, 67640, 67644, 67644, 67647, 67669,
       67680, 67702, 67712, 67742, 67808, 67826, 67828, 67829, 67840, 67861, 67872, 67897,
       67968, 68023, 68030, 68031, 68096, 68099, 68101, 68102, 68108, 68115, 68117, 68119,
       68121, 68149, 68152, 68154, 68159, 68159, 68192, 68220, 68224, 68252, 68288, 68295,
       68297, 68326, 68352, 68405, 68416, 68437, 68448, 68466, 68480, 68497, 68608, 68680,
       68736, 68786, 68800, 68850, 68864, 68903, 68912, 68921, 68928, 68965, 68969, 68973,
       68975, 68997, 69248, 69289, 69291, 69292, 69296, 69297, 69314, 69316, 69372, 69404,
       69415, 69415, 69424, 69456, 69488, 69509, 69552, 69572, 69600, 69622, 69632, 69702,
       69734, 69749, 69759, 69818, 69826, 69826, 69840, 69864, 69872, 69881, 69888, 69940,
       69942, 69951, 69956, 69959, 69968, 70003, 70006, 70006, 70016, 70084, 70089, 70092,
       70094, 70106, 70108, 70108, 70144, 70161, 70163, 70199, 70206, 70209, 70272, 70278,
       70280, 70280, 70282, 70285, 70287, 70301, 70303, 70312, 70320, 70378, 70384, 70393,
       70400, 70403, 70405, 70412, 70415, 70416, 70419, 70440, 70442, 70448, 70450, 70451,
       70453, 70457, 70459, 70468, 70471, 70472, 70475, 70477, 70480, 70480, 70487, 70487,
       70493, 70499, 70502, 70508, 70512, 70516, 70528, 70537, 70539, 70539, 70542, 70542,
       70544, 70581, 70583, 70592, 70594, 70594, 70597, 70597, 70599, 70602, 70604, 70611,
       70625, 70626, 70656, 70730, 70736, 70745, 70750, 70753, 70784, 70853, 70855, 70855,
       70864, 70873, 71040, 71093, 71096, 71104, 71128, 71133, 71168, 71232, 71236, 71236,
       71248, 71257, 71296, 71352, 71360, 71369, 71376, 71395, 71424, 71450, 71453, 71467,
       71472, 71481, 71488, 71494, 71680, 71738, 71840, 71913, 71935, 71942, 71945, 71945,
       71948, 71955, 71957, 71958, 71960, 71989, 71991, 71992, 71995, 72003, 72016, 72025,
       72096, 72103, 72106, 72151, 72154, 72161, 72163, 72164, 72192, 72254, 72263, 72263,
       72272, 72345, 72349, 72349, 72368, 72440, 72640, 72672, 72688, 72697, 72704, 72712,
       72714, 72758, 72760, 72768, 72784, 72793, 72818, 72847, 72850, 72871, 72873, 72886,
       72960, 72966, 72968, 72969, 72971, 73014, 73018, 73018, 73020, 73021, 73023, 73031,
       73040, 73049, 73056, 73061, 73063, 73064, 73066, 73102, 73104, 73105, 73107, 73112,
       73120, 73129, 73440, 73462, 73472, 73488, 73490, 73530, 73534, 73538, 73552, 73562,
       73648, 73648, 73728, 74649, 74752, 74862, 74880, 75075, 77712, 77808, 77824, 78895,
       78912, 78933, 78944, 82938, 82944, 83526, 90368, 90425, 92160, 92728, 92736, 92766,
       92768, 92777, 92784, 92862, 92864, 92873, 92880, 92909, 92912, 92916, 92928, 92982,
       92992, 92995, 93008, 93017, 93027, 93047, 93053, 93071, 93504, 93548, 93552, 93561,
       93760, 93823, 93952, 94026, 94031, 94087, 94095, 94111, 94176, 94177, 94179, 94180,
       94192, 94193, 94208, 100343, 100352, 101589, 101631, 101640, 110576, 110579, 110581, 110587,
       110589, 110590, 110592, 110882, 110898, 110898, 110928, 110930, 110933, 110933, 110948, 110951,
       110960, 111355, 113664, 113770, 113776, 113788, 113792, 113800, 113808, 113817, 113821, 113822,
       118000, 118009, 118528, 118573, 118576, 118598, 119141, 119145, 119149, 119154, 119163, 119170,
       119173, 119179, 119210, 119213, 119362, 119364, 119808, 119892, 119894, 119964, 119966, 119967,
       119970, 119970, 119973, 119974, 119977, 119980, 119982, 119993, 119995, 119995, 119997, 120003,
       120005, 120069, 120071, 120074, 120077, 120084, 120086, 120092, 120094, 120121, 120123, 120126,
       120128, 120132, 120134, 120134, 120138, 120144, 120146, 120485, 120488, 120512, 120514, 120538,
       120540, 120570, 120572, 120596, 120598, 120628, 120630, 120654, 120656, 120686, 120688, 120712,
       120714, 120744, 120746, 120770, 120772, 120779, 120782, 120831, 121344, 121398, 121403, 121452,
       121461, 121461, 121476, 121476, 121499, 121503, 121505, 121519, 122624, 122654, 122661, 122666,
       122880, 122886, 122888, 122904, 122907, 122913, 122915, 122916, 122918, 122922, 122928, 122989,
       123023, 123023, 123136, 123180, 123184, 123197, 123200, 123209, 123214, 123214, 123536, 123566,
       123584, 123641, 124112, 124153, 124368, 124410, 124896, 124902, 124904, 124907, 124909, 124910,
       124912, 124926, 124928, 125124, 125136, 125142, 125184, 125259, 125264, 125273, 126464, 126467,
       126469, 126495, 126497, 126498, 126500, 126500, 126503, 126503, 126505, 126514, 126516, 126519,
       126521, 126521, 126523, 126523, 126530, 126530, 126535, 126535, 126537, 126537, 126539, 126539,
       126541, 126543, 126545, 126546, 126548, 126548, 126551, 126551, 126553, 126553, 126555, 126555,
       126557, 126557, 126559, 126559, 126561, 126562, 126564, 126564, 126567, 126570, 126572, 126578,
       126580, 126583, 126585, 126588, 126590, 126590, 126592, 126601, 126603, 126619, 126625, 126627,
       126629, 126633, 126635, 126651, 127280, 127305, 127312, 127337, 127344, 127369, 130032, 130041,
       131072, 173791, 173824, 177977, 177984, 178205, 178208, 183969, 183984, 191456, 191472, 192093,
       194560, 195101, 196608, 201546, 201552, 205743, 917760, 917999 >>

\* Cased of Unicode 17.0 (core::unicode::cased), as ranges: first, last, ...
CASED ==
    << 65, 90, 97, 122, 170, 170, 181, 181, 186, 186, 192, 214,
       216, 246, 248, 442, 444, 447, 452, 659, 662, 696, 704, 705,
       736, 740, 837, 837, 880, 883, 886, 887, 890, 893, 895, 895,
       902, 902, 904, 906, 908, 908, 910, 929, 931, 1013, 1015, 1153,
       1162, 1327, 1329, 1366, 1376, 1416, 4256, 4293, 4295, 4295, 4301, 4301,
       4304, 4346, 4348, 4351, 5024, 5109, 5112, 5117, 7296, 7306, 7312, 7354,
       7357, 7359, 7424, 7615, 7680, 7957, 7960, 7965, 7968, 8005, 8008, 8013,
       8016, 8023, 8025, 8025, 8027, 8027, 8029, 8029, 8031, 8061, 8064, 8116,
       8118, 8124, 8126, 8126, 8130, 8132, 8134, 8140, 8144, 8147, 8150, 8155,
       8160, 8172, 8178, 8180, 8182, 8188, 8305, 8305, 8319, 8319, 8336, 8348,
       8450, 8450, 8455, 8455, 8458, 8467, 8469, 8469, 8473, 8477, 8484, 8484,
       8486, 8486, 8488, 8488, 8490, 8493, 8495, 8500, 8505, 8505, 8508, 8511,
       8517, 8521, 8526, 8526, 8544, 8575, 8579, 8580, 9398, 9449, 11264, 11492,
       11499, 11502, 11506, 11507, 11520, 11557, 11559, 11559, 11565, 11565, 42560, 42605,
       42624, 42653, 42786, 42887, 42891, 42894, 42896, 42972, 42993, 42998, 43000, 43002,
       43824, 43866, 43868, 43881, 43888, 43967, 64256, 64262, 64275, 64279, 65313, 65338,
       65345, 65370, 66560, 66639, 66736, 66771, 66776, 66811, 66928, 66938, 66940, 66954,
       66956, 66962, 66964, 66965, 66967, 66977, 66979, 66993, 66995, 67001, 67003, 67004,
       67456, 67456, 67459, 67461, 67463, 67504, 67506, 67514, 68736, 68786, 68800, 68850,
       68944, 68965, 68976, 68997, 71840, 71903, 93760, 93823, 93856, 93880, 93883, 93907,
       119808, 119892, 119894, 119964, 119966, 119967, 119970, 119970, 119973, 119974, 119977, 119980,
       119982, 119993, 119995, 119995, 119997, 120003, 120005, 120069, 120071, 120074, 120077, 120084,
       120086, 120092, 120094, 120121, 120123, 120126, 120128, 120132, 120134, 120134, 120138, 120144,
       120146, 120485, 120488, 120512, 120514, 120538, 120540, 120570, 120572, 120596, 120598, 120628,
       120630, 120654, 120656, 120686, 120688, 120712, 120714, 120744, 120746, 120770, 120772, 120779,
       122624, 122633, 122635, 122654, 122661, 122666, 122928, 122989, 125184, 125251, 127280, 127305,
       127312, 127337, 127344, 127369 >>

\* Case_Ignorable of Unicode 17.0 (core::unicode::case_ignorable), as ranges
CASE_IGNORABLE ==
    << 39, 39, 46, 46, 58, 58, 94, 94, 96, 96, 168, 168,
       173, 173, 175, 175, 180, 180, 183, 184, 688, 879, 884, 885,
       890, 890, 900, 901, 903, 903, 1155, 1161, 1369, 1369, 1375, 1375,
       1425, 1469, 1471, 1471, 1473, 1474, 1476, 1477, 1479, 1479, 1524, 1524,
       1536, 1541, 1552, 1562, 1564, 1564, 1600, 1600, 1611, 1631, 1648, 1648,
       1750, 1757, 1759, 1768, 1770, 1773, 1807, 1807, 1809, 1809, 1840, 1866,
       1958, 1968, 2027, 2037, 2042, 2042, 2045, 2045, 2070, 2093, 2137, 2139,
       2184, 2184, 2192, 2193, 2199, 2207, 2249, 2306, 2362, 2362, 2364, 2364,
       2369, 2376, 2381, 2381, 2385, 2391, 2402, 2403, 2417, 2417, 2433, 2433,
       2492, 2492, 2497, 2500, 2509, 2509, 2530, 2531, 2558, 2558, 2561, 2562,
       2620, 2620, 2625, 2626, 2631, 2632, 2635, 2637, 2641, 2641, 2672, 2673,
       2677, 2677, 2689, 2690, 2748, 2748, 2753, 2757, 2759, 2760, 2765, 2765,
       2786, 2787, 2810, 2815, 2817, 2817, 2876, 2876, 2879, 2879, 2881, 2884,
       2893, 2893, 2901, 2902, 2914, 2915, 2946, 2946, 3008, 3008, 3021, 3021,
       3072, 3072, 3076, 3076, 3132, 3132, 3134, 3136, 3142, 3144, 3146, 3149,
       3157, 3158, 3170, 3171, 3201, 3201, 3260, 3260, 3263, 3263, 3270, 3270,
       3276, 3277, 3298, 3299, 3328, 3329, 3387, 3388, 3393, 3396, 3405, 3405,
       3426, 3427, 3457, 3457, 3530, 3530, 3538, 3540, 3542, 3542, 3633, 3633,
       3636, 3642, 3654, 3662, 3761, 3761, 3764, 3772, 3782, 3782, 3784, 3790,
       3864, 3865, 3893, 3893, 3895, 3895, 3897, 3897, 3953, 3966, 3968, 3972,
       3974, 3975, 3981, 3991, 3993, 4028, 4038, 4038, 4141, 4144, 4146, 4151,
       4153, 4154, 4157, 4158, 4184, 4185, 4190, 4192, 4209, 4212, 4226, 4226,
       4229, 4230, 4237, 4237, 4253, 4253, 4348, 4348, 4957, 4959, 5906, 5908,
       5938, 5939, 5970, 5971, 6002, 6003, 6068, 6069, 6071, 6077, 6086, 6086,
       6089, 6099, 6103, 6103, 6109, 6109, 6155, 6159, 6211, 6211, 6277, 6278,
       6313, 6313, 6432, 6434, 6439, 6440, 6450, 6450, 6457, 6459, 6679, 6680,
       6683, 6683, 6742, 6742, 6744, 6750, 6752, 6752, 6754, 6754, 6757, 6764,
       6771, 6780, 6783, 6783, 6823, 6823, 6832, 6877, 6880, 6891, 6912, 6915,
       6964, 6964, 6966, 6970, 6972, 6972, 6978, 6978, 7019, 7027, 7040, 7041,
       7074, 7077, 7080, 7081, 7083, 7085, 7142, 7142, 7144, 7145, 7149, 7149,
       7151, 7153, 7212, 7219, 7222, 7223, 7288, 7293, 7376, 7378, 7380, 7392,
       7394, 7400, 7405, 7405, 7412, 7412, 7416, 7417, 7468, 7530, 7544, 7544,
       7579, 7679, 8125, 8125, 8127, 8129, 8141, 8143, 8157, 8159, 8173, 8175,
       8189, 8190, 8203, 8207, 8216, 8217, 8228, 8228, 8231, 8231, 8234, 8238,
       8288, 8292, 8294, 8303, 8305, 8305, 8319, 8319, 8336, 8348, 8400, 8432,
       11388, 11389, 11503, 11505, 11631, 11631, 11647, 11647, 11744, 11775, 11823, 11823,
       12293, 12293, 12330, 12333, 12337, 12341, 12347, 12347, 12441, 12446, 12540, 12542,
       40981, 40981, 42232, 42237, 42508, 42508, 42607, 42610, 42612, 42621, 42623, 42623,
       42652, 42655, 42736, 42737, 42752, 42785, 42864, 42864, 42888, 42890, 42993, 42996,
       43000, 43001, 43010, 43010, 43014, 43014, 43019, 43019, 43045, 43046, 43052, 43052,
       43204, 43205, 43232, 43249, 43263, 43263, 43302, 43309, 43335, 43345, 43392, 43394,
       43443, 43443, 43446, 43449, 43452, 43453, 43471, 43471, 43493, 43494, 43561, 43566,
       43569, 43570, 43573, 43574, 43587, 43587, 43596, 43596, 43632, 43632, 43644, 43644,
       43696, 43696, 43698, 43700, 43703, 43704, 43710, 43711, 43713, 43713, 43741, 43741,
       43756, 43757, 43763, 43764, 43766, 43766, 43867, 43871, 43881, 43883, 44005, 44005,
       44008, 44008, 44013, 44013, 64286, 64286, 64434, 64450, 65024, 65039, 65043, 65043,
       65056, 65071, 65106, 65106, 65109, 65109, 65279, 65279, 65287, 65287, 65294, 65294,
       65306, 65306, 65342, 65342, 65344, 65344, 65392, 65392, 65438, 65439, 65507, 65507,
       65529, 65531, 66045, 66045, 66272, 66272, 66422, 66426, 67456, 67461, 67463, 67504,
       67506, 67514, 68097, 68099, 68101, 68102, 68108, 68111, 68152, 68154, 68159, 68159,
       68325, 68326, 68900, 68903, 68942, 68942, 68969, 68973, 68975, 68975, 69291, 69292,
       69317, 69317, 69370, 69375, 69446, 69456, 69506, 69509, 69633, 69633, 69688, 69702,
       69744, 69744, 69747, 69748, 69759, 69761, 69811, 69814, 69817, 69818, 69821, 69821,
       69826, 69826, 69837, 69837, 69888, 69890, 69927, 69931, 69933, 69940, 70003, 70003,
       70016, 70017, 70070, 70078, 70089, 70092, 70095, 70095, 70191, 70193, 70196, 70196,
       70198, 70199, 70206, 70206, 70209, 70209, 70367, 70367, 70371, 70378, 70400, 70401,
       70459, 70460, 70464, 70464, 70502, 70508, 70512, 70516, 70587, 70592, 70606, 70606,
       70608, 70608, 70610, 70610, 70625, 70626, 70712, 70719, 70722, 70724, 70726, 70726,
       70750, 70750, 70835, 70840, 70842, 70842, 70847, 70848, 70850, 70851, 71090, 71093,
       71100, 71101, 71103, 71104, 71132, 71133, 71219, 71226, 71229, 71229, 71231, 71232,
       71339, 71339, 71341, 71341, 71344, 71349, 71351, 71351, 71453, 71453, 71455, 71455,
       71458, 71461, 71463, 71467, 71727, 71735, 71737, 71738, 71995, 71996, 71998, 71998,
       72003, 72003, 72148, 72151, 72154, 72155, 72160, 72160, 72193, 72202, 72243, 72248,
       72251, 72254, 72263, 72263, 72273, 72278, 72281, 72283, 72330, 72342, 72344, 72345,
       72544, 72544, 72546, 72548, 72550, 72550, 72752, 72758, 72760, 72765, 72767, 72767,
       72850, 72871, 72874, 72880, 72882, 72883, 72885, 72886, 73009, 73014, 73018, 73018,
       73020, 73021, 73023, 73029, 73031, 73031, 73104, 73105, 73109, 73109, 73111, 73111,
       73177, 73177, 73459, 73460, 73472, 73473, 73526, 73530, 73536, 73536, 73538, 73538,
       73562, 73562, 78896, 78912, 78919, 78933, 90398, 90409, 90413, 90415, 92912, 92916,
       92976, 92982, 92992, 92995, 93504, 93506, 93547, 93548, 94031, 94031, 94095, 94111,
       94176, 94177, 94179, 94180, 94194, 94195, 110576, 110579, 110581, 110587, 110589, 110590,
       113821, 113822, 113824, 113827, 118528, 118573, 118576, 118598, 119143, 119145, 119155, 119170,
       119173, 119179, 119210, 119213, 119362, 119364, 121344, 121398, 121403, 121452, 121461, 121461,
       121476, 121476, 121499, 121503, 121505, 121519, 122880, 122886, 122888, 122904, 122907, 122913,
       122915, 122916, 122918, 122922, 122928, 122989, 123023, 123023, 123184, 123197, 123566, 123566,
       123628, 123631, 124139, 124143, 124398, 124399, 124643, 124643, 124646, 124646, 124654, 124655,
       124661, 124661, 124671, 124671, 125136, 125142, 125252, 125259, 127995, 127999, 917505, 917505,
       917536, 917631, 917760, 917999 >>

\* the lower case mappings to one character (core::unicode::conversions,
\* Unicode 17.0), as
\* runs of four numbers: first, last, step, delta; every step-th code point
\* from first to last maps to itself plus delta
LOWERCASE_TABLE ==
    << 65, 90, 1, 32, 192, 214, 1, 32, 216, 222, 1, 32,
       256, 302, 2, 1, 306, 310, 2, 1, 313, 327, 2, 1,
       330, 374, 2, 1, 376, 376, 1, -121, 377, 381, 2, 1,
       385, 385, 1, 210, 386, 388, 2, 1, 390, 390, 1, 206,
       391, 391, 1, 1, 393, 394, 1, 205, 395, 395, 1, 1,
       398, 398, 1, 79, 399, 399, 1, 202, 400, 400, 1, 203,
       401, 401, 1, 1, 403, 403, 1, 205, 404, 404, 1, 207,
       406, 406, 1, 211, 407, 407, 1, 209, 408, 408, 1, 1,
       412, 412, 1, 211, 413, 413, 1, 213, 415, 415, 1, 214,
       416, 420, 2, 1, 422, 422, 1, 218, 423, 423, 1, 1,
       425, 425, 1, 218, 428, 428, 1, 1, 430, 430, 1, 218,
       431, 431, 1, 1, 433, 434, 1, 217, 435, 437, 2, 1,
       439, 439, 1, 219, 440, 440, 1, 1, 444, 444, 1, 1,
       452, 452, 1, 2, 453, 453, 1, 1, 455, 455, 1, 2,
       456, 456, 1, 1, 458, 458, 1, 2, 459, 475, 2, 1,
       478, 494, 2, 1, 497, 497, 1, 2, 498, 500, 2, 1,
       502, 502, 1, -97, 503, 503, 1, -56, 504, 542, 2, 1,
       544, 544, 1, -130, 546, 562, 2, 1, 570, 570, 1, 10795,
       571, 571, 1, 1, 573, 573, 1, -163, 574, 574, 1, 10792,
       577, 577, 1, 1, 579, 579, 1, -195, 580, 580, 1, 69,
       581, 581, 1, 71, 582, 590, 2, 1, 880, 882, 2, 1,
       886, 886, 1, 1, 895, 895, 1, 116, 902, 902, 1, 38,
       904, 906, 1, 37, 908, 908, 1, 64, 910, 911, 1, 63,
       913, 929, 1, 32, 931, 939, 1, 32, 975, 975, 1, 8,
       984, 1006, 2, 1, 1012, 1012, 1, -60, 1015, 1015, 1, 1,
       1017, 1017, 1, -7, 1018, 1018, 1, 1, 1021, 1023, 1, -130,
       1024, 1039, 1, 80, 1040, 1071, 1, 32, 1120, 1152, 2, 1,
       1162, 1214, 2, 1, 1216, 1216, 1, 15, 1217, 1229, 2, 1,
       1232, 1326, 2, 1, 1329, 1366, 1, 48, 4256, 4293, 1, 7264,
       4295, 4295, 1, 7264, 4301, 4301, 1, 7264, 5024, 5103, 1, 38864,
       5104, 5109, 1, 8, 7305, 7305, 1, 1, 7312, 7354, 1, -3008,
       7357, 7359, 1, -3008, 7680, 7828, 2, 1, 7838, 7838, 1, -7615,
       7840, 7934, 2, 1, 7944, 7951, 1, -8, 7960, 7965, 1, -8,
       7976, 7983, 1, -8, 7992, 7999, 1, -8, 8008, 8013, 1, -8,
       8025, 8031, 2, -8, 8040, 8047, 1, -8, 8072, 8079, 1, -8,
       8088, 8095, 1, -8, 8104, 8111, 1, -8, 8120, 8121, 1, -8,
       8122, 8123, 1, -74, 8124, 8124, 1, -9, 8136, 8139, 1, -86,
       8140, 8140, 1, -9, 8152, 8153, 1, -8, 8154, 8155, 1, -100,
       8168, 8169, 1, -8, 8170, 8171, 1, -112, 8172, 8172, 1, -7,
       8184, 8185, 1, -128, 8186, 8187, 1, -126, 8188, 8188, 1, -9,
       8486, 8486, 1, -7517, 8490, 8490, 1, -8383, 8491, 8491, 1, -8262,
       8498, 8498, 1, 28, 8544, 8559, 1, 16, 8579, 8579, 1, 1,
       9398, 9423, 1, 26, 11264, 11311, 1, 48, 11360, 11360, 1, 1,
       11362, 11362, 1, -10743, 11363, 11363, 1, -3814, 11364, 11364, 1, -10727,
       11367, 11371, 2, 1, 11373, 11373, 1, -10780, 11374, 11374, 1, -10749,
       11375, 11375, 1, -10783, 11376, 11376, 1, -10782, 11378, 11378, 1, 1,
       11381, 11381, 1, 1, 11390, 11391, 1, -10815, 11392, 11490, 2, 1,
       11499, 11501, 2, 1, 11506, 11506, 1, 1, 42560, 42604, 2, 1,
       42624, 42650, 2, 1, 42786, 42798, 2, 1, 42802, 42862, 2, 1,
       42873, 42875, 2, 1, 42877, 42877, 1, -35332, 42878, 42886, 2, 1,
       42891, 42891, 1, 1, 42893, 42893, 1, -42280, 42896, 42898, 2, 1,
       42902, 42920, 2, 1, 42922, 42922, 1, -42308, 42923, 42923, 1, -42319,
       42924, 42924, 1, -42315, 42925, 42925, 1, -42305, 42926, 42926, 1, -42308,
       42928, 42928, 1, -42258, 42929, 42929, 1, -42282, 42930, 42930, 1, -42261,
       42931, 42931, 1, 928, 42932, 42946, 2, 1, 42948, 42948, 1, -48,
       42949, 42949, 1, -42307, 42950, 42950, 1, -35384, 42951, 42953, 2, 1,
       42955, 42955, 1, -42343, 42956, 42970, 2, 1, 42972, 42972, 1, -42561,
       42997, 42997, 1, 1, 65313, 65338, 1, 32, 66560, 66599, 1, 40,
       66736, 66771, 1, 40, 66928, 66964, 2, 39, 66929, 66938, 1, 39,
       66941, 66954, 1, 39, 66957, 66962, 1, 39, 66965, 66965, 1, 39,
       68736, 68786, 1, 64, 68944, 68965, 1, 32, 71840, 71871, 1, 32,
       93760, 93791, 1, 32, 93856, 93880, 1, 27, 125184, 125217, 1, 34 >>

\* the lower case mappings to several characters, four numbers each: the code
\* point and its three characters, 0 for none
LOWERCASE_TABLE_MULTI ==
    << 304, 105, 775, 0 >>

\* the upper case mappings to one character (Unicode 17.0), as runs
UPPERCASE_TABLE ==
    << 97, 122, 1, -32, 181, 181, 1, 743, 224, 246, 1, -32,
       248, 254, 1, -32, 255, 255, 1, 121, 257, 303, 2, -1,
       305, 305, 1, -232, 307, 311, 2, -1, 314, 328, 2, -1,
       331, 375, 2, -1, 378, 382, 2, -1, 383, 383, 1, -300,
       384, 384, 1, 195, 387, 389, 2, -1, 392, 392, 1, -1,
       396, 396, 1, -1, 402, 402, 1, -1, 405, 405, 1, 97,
       409, 409, 1, -1, 410, 410, 1, 163, 411, 411, 1, 42561,
       414, 414, 1, 130, 417, 421, 2, -1, 424, 424, 1, -1,
       429, 429, 1, -1, 432, 432, 1, -1, 436, 438, 2, -1,
       441, 441, 1, -1, 445, 445, 1, -1, 447, 447, 1, 56,
       453, 453, 1, -1, 454, 454, 1, -2, 456, 456, 1, -1,
       457, 457, 1, -2, 459, 459, 1, -1, 460, 460, 1, -2,
       462, 476, 2, -1, 477, 477, 1, -79, 479, 495, 2, -1,
       498, 498, 1, -1, 499, 499, 1, -2, 501, 501, 1, -1,
       505, 543, 2, -1, 547, 563, 2, -1, 572, 572, 1, -1,
       575, 576, 1, 10815, 578, 578, 1, -1, 583, 591, 2, -1,
       592, 592, 1, 10783, 593, 593, 1, 10780, 594, 594, 1, 10782,
       595, 595, 1, -210, 596, 596, 1, -206, 598, 599, 1, -205,
       601, 601, 1, -202, 603, 603, 1, -203, 604, 604, 1, 42319,
       608, 608, 1, -205, 609, 609, 1, 42315, 611, 611, 1, -207,
       612, 612, 1, 42343, 613, 613, 1, 42280, 614, 614, 1, 42308,
       616, 616, 1, -209, 617, 617, 1, -211, 618, 618, 1, 42308,
       619, 619, 1, 10743, 620, 620, 1, 42305, 623, 623, 1, -211,
       625, 625, 1, 10749, 626, 626, 1, -213, 629, 629, 1, -214,
       637, 637, 1, 10727, 640, 640, 1, -218, 642, 642, 1, 42307,
       643, 643, 1, -218, 647, 647, 1, 42282, 648, 648, 1, -218,
       649, 649, 1, -69, 650, 651, 1, -217, 652, 652, 1, -71,
       658, 658, 1, -219, 669, 669, 1, 42261, 670, 670, 1, 42258,
       837, 837, 1, 84, 881, 883, 2, -1, 887, 887, 1, -1,
       891, 893, 1, 130, 940, 940, 1, -38, 941, 943, 1, -37,
       945, 961, 1, -32, 962, 962, 1, -31, 963, 971, 1, -32,
       972, 972, 1, -64, 973, 974, 1, -63, 976, 976, 1, -62,
       977, 977, 1, -57, 981, 981, 1, -47, 982, 982, 1, -54,
       983, 983, 1, -8, 985, 1007, 2, -1, 1008, 1008, 1, -86,
       1009, 1009, 1, -80, 1010, 1010, 1, 7, 1011, 1011, 1, -116,
       1013, 1013, 1, -96, 1016, 1016, 1, -1, 1019, 1019, 1, -1,
       1072, 1103, 1, -32, 1104, 1119, 1, -80, 1121, 1153, 2, -1,
       1163, 1215, 2, -1, 1218, 1230, 2, -1, 1231, 1231, 1, -15,
       1233, 1327, 2, -1, 1377, 1414, 1, -48, 4304, 4346, 1, 3008,
       4349, 4351, 1, 3008, 5112, 5117, 1, -8, 7296, 7296, 1, -6254,
       7297, 7297, 1, -6253, 7298, 7298, 1, -6244, 7299, 7300, 1, -6242,
       7301, 7301, 1, -6243, 7302, 7302, 1, -6236, 7303, 7303, 1, -6181,
       7304, 7304, 1, 35266, 7306, 7306, 1, -1, 7545, 7545, 1, 35332,
       7549, 7549, 1, 3814, 7566, 7566, 1, 35384, 7681, 7829, 2, -1,
       7835, 7835, 1, -59, 7841, 7935, 2, -1, 7936, 7943, 1, 8,
       7952, 7957, 1, 8, 7968, 7975, 1, 8, 7984, 7991, 1, 8,
       8000, 8005, 1, 8, 8017, 8023, 2, 8, 8032, 8039, 1, 8,
       8048, 8049, 1, 74, 8050, 8053, 1, 86, 8054, 8055, 1, 100,
       8056, 8057, 1, 128, 8058, 8059, 1, 112, 8060, 8061, 1, 126,
       8112, 8113, 1, 8, 8126, 8126, 1, -7205, 8144, 8145, 1, 8,
       8160, 8161, 1, 8, 8165, 8165, 1, 7, 8526, 8526, 1, -28,
       8560, 8575, 1, -16, 8580, 8580, 1, -1, 9424, 9449, 1, -26,
       11312, 11359, 1, -48, 11361, 11361, 1, -1, 11365, 11365, 1, -10795,
       11366, 11366, 1, -10792, 11368, 11372, 2, -1, 11379, 11379, 1, -1,
       11382, 11382, 1, -1, 11393, 11491, 2, -1, 11500, 11502, 2, -1,
       11507, 11507, 1, -1, 11520, 11557, 1, -7264, 11559, 11559, 1, -7264,
       11565, 11565, 1, -7264, 42561, 42605, 2, -1, 42625, 42651, 2, -1,
       42787, 42799, 2, -1, 42803, 42863, 2, -1, 42874, 42876, 2, -1,
       42879, 42887, 2, -1, 42892, 42892, 1, -1, 42897, 42899, 2, -1,
       42900, 42900, 1, 48, 42903, 42921, 2, -1, 42933, 42947, 2, -1,
       42952, 42954, 2, -1, 42957, 42971, 2, -1, 42998, 42998, 1, -1,
       43859, 43859, 1, -928, 43888, 43967, 1, -38864, 65345, 65370, 1, -32,
       66600, 66639, 1, -40, 66776, 66811, 1, -40, 66967, 67003, 2, -39,
       66968, 66977, 1, -39, 66980, 66993, 1, -39, 66996, 67001, 1, -39,
       67004, 67004, 1, -39, 68800, 68850, 1, -64, 68976, 68997, 1, -32,
       71872, 71903, 1, -32, 93792, 93823, 1, -32, 93883, 93907, 1, -27,
       125218, 125251, 1, -34 >>

\* the upper case mappings to several characters
UPPERCASE_TABLE_MULTI ==
    << 223, 83, 83, 0, 329, 700, 78, 0, 496, 74, 780, 0,
       912, 921, 776, 769, 944, 933, 776, 769, 1415, 1333, 1362, 0,
       7830, 72, 817, 0, 7831, 84, 776, 0, 7832, 87, 778, 0,
       7833, 89, 778, 0, 7834, 65, 702, 0, 8016, 933, 787, 0,
       8018, 933, 787, 768, 8020, 933, 787, 769, 8022, 933, 787, 834,
       8064, 7944, 921, 0, 8065, 7945, 921, 0, 8066, 7946, 921, 0,
       8067, 7947, 921, 0, 8068, 7948, 921, 0, 8069, 7949, 921, 0,
       8070, 7950, 921, 0, 8071, 7951, 921, 0, 8072, 7944, 921, 0,
       8073, 7945, 921, 0, 8074, 7946, 921, 0, 8075, 7947, 921, 0,
       8076, 7948, 921, 0, 8077, 7949, 921, 0, 8078, 7950, 921, 0,
       8079, 7951, 921, 0, 8080, 7976, 921, 0, 8081, 7977, 921, 0,
       8082, 7978, 921, 0, 8083, 7979, 921, 0, 8084, 7980, 921, 0,
       8085, 7981, 921, 0, 8086, 7982, 921, 0, 8087, 7983, 921, 0,
       8088, 7976, 921, 0, 8089, 7977, 921, 0, 8090, 7978, 921, 0,
       8091, 7979, 921, 0, 8092, 7980, 921, 0, 8093, 7981, 921, 0,
       8094, 7982, 921, 0, 8095, 7983, 921, 0, 8096, 8040, 921, 0,
       8097, 8041, 921, 0, 8098, 8042, 921, 0, 8099, 8043, 921, 0,
       8100, 8044, 921, 0, 8101, 8045, 921, 0, 8102, 8046, 921, 0,
       8103, 8047, 921, 0, 8104, 8040, 921, 0, 8105, 8041, 921, 0,
       8106, 8042, 921, 0, 8107, 8043, 921, 0, 8108, 8044, 921, 0,
       8109, 8045, 921, 0, 8110, 8046, 921, 0, 8111, 8047, 921, 0,
       8114, 8122, 921, 0, 8115, 913, 921, 0, 8116, 902, 921, 0,
       8118, 913, 834, 0, 8119, 913, 834, 921, 8124, 913, 921, 0,
       8130, 8138, 921, 0, 8131, 919, 921, 0, 8132, 905, 921, 0,
       8134, 919, 834, 0, 8135, 919, 834, 921, 8140, 919, 921, 0,
       8146, 921, 776, 768, 8147, 921, 776, 769, 8150, 921, 834, 0,
       8151, 921, 776, 834, 8162, 933, 776, 768, 8163, 933, 776, 769,
       8164, 929, 787, 0, 8166, 933, 834, 0, 8167, 933, 776, 834,
       8178, 8186, 921, 0, 8179, 937, 921, 0, 8180, 911, 921, 0,
       8182, 937, 834, 0, 8183, 937, 834, 921, 8188, 937, 921, 0,
       64256, 70, 70, 0, 64257, 70, 73, 0, 64258, 70, 76, 0,
       64259, 70, 70, 73, 64260, 70, 70, 76, 64261, 83, 84, 0,
       64262, 83, 84, 0, 64275, 1348, 1350, 0, 64276, 1348, 1333, 0,
       64277, 1348, 1339, 0, 64278, 1358, 1350, 0, 64279, 1348, 1341, 0 >>

\* cp lies in one of the ranges of the table T
InRanges(T, cp) == \E r \in 1..(Len(T) \div 2) : T[2 * r - 1] <= cp /\ cp <= T[2 * r]

\* the runs of the table T that hold cp
RunsOf(T, cp) ==
    {r \in 1..(Len(T) \div 4) :
        T[4 * r - 3] <= cp /\ cp <= T[4 * r - 2] /\ (cp - T[4 * r - 3]) % T[4 * r - 1] = 0}

\* the delta of the first of the runs hit, 0 when there is none
RunDelta(T, hit) == IF hit = {} THEN 0 ELSE T[4 * (CHOOSE r \in hit : TRUE)]

\* the image of cp under a table of runs; a code point in no run maps to itself
RunMap(T, cp) == cp + RunDelta(T, RunsOf(T, cp))

\* the code points of the row r of a table of mappings to several characters
MultiRow(T, r) == SelectSeq(<<T[4 * r - 2], T[4 * r - 1], T[4 * r]>>, LAMBDA x : x > 0)

\* the entry of cp in a table of mappings to several characters, or <<>>
MultiMap(T, cp) ==
    IF \E r \in 1..(Len(T) \div 4) : T[4 * r - 3] = cp
    THEN MultiRow(T, CHOOSE r \in 1..(Len(T) \div 4) : T[4 * r - 3] = cp)
    ELSE <<>>

\* the characters of a mapping: the several characters of the special cases,
\* else the one character, which is c itself when its code point is unchanged
Mapped(c, cp, one, several) ==
    IF several # <<>> THEN Chars(several)
    ELSE IF one = cp THEN <<c>> ELSE <<Char(one)>>

\* the case mapping of the char c of code point cp: the table of mappings to
\* several characters is looked up first, then the table of runs
CaseMap(c, cp, T, TMulti) == Mapped(c, cp, RunMap(T, cp), MultiMap(TMulti, cp))

\* char::len_utf8: the bytes a character takes in a str
Utf8Len(c) ==
    IF Len(c) = 1 THEN 1
    ELSE 1 + Cardinality({t \in {128, 2048, 65536} : CodePoint(c) >= t})

\* the bytes that the first n characters of s take beyond one byte each
WideBytes(s, n) ==
    Cardinality({p \in {<<i, Utf8Len(s[i])>> : i \in {j \in 1..n : Len(s[j]) > 1}} \X {2, 3, 4} :
                     p[1][2] >= p[2]})

\* str::len of a text: its length in bytes, one for every character and one
\* more for each further byte of a character
ByteLen(s) == Len(s) + WideBytes(s, Len(s))

\* the byte offset of the character at position i (1-based) of l
ByteOffset(l, i) == (i - 1) + WideBytes(l, i - 1)

\* the ASCII letter, in lower case, that c matches under the (?i) flag of the
\* regex crate, or c itself when it matches none: beside the letter and its
\* capital, the simple case folding of Unicode puts U+017F with s and U+212A
\* with k, and no other character with an ASCII letter
FoldToAscii(c) ==
    IF c \in UpperSet THEN LowerOf[c]
    ELSE IF c = LongS THEN "s"
    ELSE IF c = KelvinSign THEN "k"
    ELSE c

\* the class [a-zA-Z] under (?i): the class is closed under case folding before
\* [^a-zA-Z] negates it
InLetterClassCI(c) == FoldToAscii(c) \in LowerSet

\* \w of the regex crate (Unicode)
IsWordChar(c) ==
    IF Len(c) = 1 THEN IsAsciiLetter(c) \/ IsDigit(c) \/ c = "_"
    ELSE InRanges(PERL_WORD, CodePoint(c))

\* char::is_whitespace: the Unicode property White_Space
IsWhitespace(c) == c \in WHITE_SPACE

\* char::to_lowercase: the characters of the lower case mapping, in order
LowerChar(c) ==
    IF Len(c) = 1 THEN (IF c \in UpperSet THEN <<LowerOf[c]>> ELSE <<c>>)
    ELSE CaseMap(c, CodePoint(c), LOWERCASE_TABLE, LOWERCASE_TABLE_MULTI)

\* char::to_uppercase: the characters of the upper case mapping, in order
UpperChar(c) ==
    IF Len(c) = 1 THEN (IF c \in LowerSet THEN <<UpperOf[c]>> ELSE <<c>>)
    ELSE CaseMap(c, CodePoint(c), UPPERCASE_TABLE, UPPERCASE_TABLE_MULTI)

\* the first of the positions rest of s holds a Cased character
FirstIsCased(s, rest) ==
    rest # {} /\ InRanges(CASED, CodePoint(s[CHOOSE x \in rest : \A y \in rest : x <= y]))

\* case_ignorable_then_cased of alloc::str: the first character of s that is
\* not Case_Ignorable is Cased
case_ignorable_then_cased(s) ==
    FirstIsCased(s, {i \in 1..Len(s) : ~InRanges(CASE_IGNORABLE, CodePoint(s[i]))})

Reverse(s) == [i \in 1..Len(s) |-> s[Len(s) + 1 - i]]

\* map_uppercase_sigma of alloc::str: U+03A3 at position i of s becomes the
\* final sigma when a cased letter stands before it and none after it
map_uppercase_sigma(s, i) ==
    IF /\ case_ignorable_then_cased(Reverse(SubSeq(s, 1, i - 1)))
       /\ ~case_ignorable_then_cased(SubSeq(s, i + 1, Len(s)))
    THEN SmallFinalSigma
    ELSE SmallSigma

RECURSIVE lowercase_from(_, _)
lowercase_from(s, i) ==
    IF i > Len(s) THEN <<>>
    ELSE (IF s[i] = CapitalSigma THEN <<map_uppercase_sigma(s, i)>> ELSE LowerChar(s[i]))
         \o lowercase_from(s, i + 1)

\* str::to_lowercase
to_lowercase(s) == lowercase_from(s, 1)

\* the value of a run of decimal digits (u32::from_str)
DigitVal(c) == CHOOSE d \in 0..9 : ToString(d) = c

RECURSIVE from_str(_)
from_str(s) ==
    IF Len(s) = 0 THEN 0
    ELSE 10 * from_str(SubSeq(s, 1, Len(s) - 1)) + DigitVal(s[Len(s)])

----------------------------------------------------------------------------
(* String search.  Positions inside the model are 1-based character        *)
(* positions; the columns the program reports are the 0-based byte offsets *)
(* of str::find.                                                           *)

\* the text w stands in l at position i (case-sensitive)
HasAt(l, i, w) ==
    /\ i >= 1
    /\ i + Len(w) - 1 <= Len(l)
    /\ \A k \in 1..Len(w) : l[i + k - 1] = w[k]

\* the same under the (?i) flag; w is given in lower case
HasAtCI(l, i, w) ==
    /\ i >= 1
    /\ i + Len(w) - 1 <= Len(l)
    /\ \A k \in 1..Len(w) : FoldToAscii(l[i + k - 1]) = w[k]

ContainsCI(l, w) == \E i \in 1..Len(l) : HasAtCI(l, i, w)

\* the regex a.*b under (?i)
DotStarCI(l, a, b) ==
    \E i \in 1..Len(l) : \E j \in (i + Len(a))..Len(l) :
        HasAtCI(l, i, a) /\ HasAtCI(l, j, b)

\* the regex a.*b.*c under (?i)
DotStar3CI(l, a, b, c) ==
    \E i \in 1..Len(l) : \E j \in (i + Len(a))..Len(l) :
        \E k \in (j + Len(b))..Len(l) :
            HasAtCI(l, i, a) /\ HasAtCI(l, j, b) /\ HasAtCI(l, k, c)

Min(S) == CHOOSE x \in S : \A y \in S : x <= y

\* the result of a str::find whose pattern matches at the positions hits of l:
\* Some(byte offset of the first of them) or None
FirstOffset(l, hits) == IF hits = {} THEN None ELSE Some(ByteOffset(l, Min(hits)))

\* str::find(&str): Some(byte offset of the first occurrence) or None
find(l, w) == FirstOffset(l, {i \in 1..Len(l) : HasAt(l, i, w)})

\* str::find(|c| c.to_lowercase().any(|x| x == ch)): the first character whose
\* lower case is ch
find_lower_eq(l, ch) == FirstOffset(l, {i \in 1..Len(l) : ch \in Range(LowerChar(l[i]))})

\* str::find(|c| c.to_uppercase().any(|x| word.contains(x))): the first
\* character whose upper case is a character of word
find_upper_in(l, word) ==
    FirstOffset(l, {i \in 1..Len(l) : Range(UpperChar(l[i])) \cap Range(word) # {}})

\* Option::or_else
or_else(a, b) == IF IsSome(a) THEN a ELSE b

\* Option::unwrap_or
unwrap_or(a, d) == IF IsSome(a) THEN Unwrap(a) ELSE d

\* str::trim
trim(l) ==
    LET keep == {i \in 1..Len(l) : ~IsWhitespace(l[i])}
    IN  IF keep = {} THEN <<>>
        ELSE SubSeq(l, Min(keep), CHOOSE x \in keep : \A y \in keep : y <= x)

----------------------------------------------------------------------------
(* The regular expressions of audit.rs, lines 30-83.  Every pattern has    *)
(* the (?i) flag; is_match asks for a match anywhere in the line.          *)

\* RSA_PATTERN: (RSA|Rsa|rsa)[^a-zA-Z]*([\d]{3,4})?|(generate.*rsa.*key|rsa.*keygen)
\* the tail [^a-zA-Z]*([\d]{3,4})? of the first alternative matches the empty text
RSA_PATTERN(l) ==
    \/ \E i \in 1..Len(l) : HasAtCI(l, i, <<"r", "s", "a">>)
    \/ DotStar3CI(l, <<"g", "e", "n", "e", "r", "a", "t", "e">>, <<"r", "s", "a">>, <<"k", "e", "y">>)
    \/ DotStarCI(l, <<"r", "s", "a">>, <<"k", "e", "y", "g", "e", "n">>)

\* RSA_KEYGEN: (RSA\.generate|generateKeyPair.*RSA|KeyPairGenerator\.getInstance.*RSA|rsa\.GenerateKey)
RSA_KEYGEN(l) ==
    \/ ContainsCI(l, <<"r", "s", "a", ".", "g", "e", "n", "e", "r", "a", "t", "e">>)
    \/ DotStarCI(l, <<"g", "e", "n", "e", "r", "a", "t", "e", "k", "e", "y", "p", "a", "i", "r">>, <<"r", "s", "a">>)
    \/ DotStarCI(l, <<"k", "e", "y", "p", "a", "i", "r", "g", "e", "n", "e", "r", "a", "t", "o", "r", ".", "g", "e", "t", "i", "n", "s", "t", "a", "n", "c", "e">>, <<"r", "s", "a">>)
    \/ ContainsCI(l, <<"r", "s", "a", ".", "g", "e", "n", "e", "r", "a", "t", "e", "k", "e", "y">>)

\* the alternation (512|1024|2048|3072|4096|8192), in the order the regex tries it
RsaKeySizeAlternatives ==
    << <<"5", "1", "2">>, <<"1", "0", "2", "4">>, <<"2", "0", "4", "8">>, <<"3", "0", "7", "2">>, <<"4", "0", "9", "6">>, <<"8", "1", "9", "2">> >>

\* RSA_KEY_SIZE: (?:rsa|RSA)[^0-9]*(512|1024|2048|3072|4096|8192)
\* a match that starts at i: the keyword at i, then non-digits up to position j,
\* then the first alternative that stands at j.  [^0-9]* cannot step over a digit,
\* so j is the first digit after the keyword.
RsaKeySizeMatchAt(l, i) ==
    IF ~HasAtCI(l, i, <<"r", "s", "a">>) THEN None
    ELSE LET after == {j \in (i + 3)..Len(l) : IsDigit(l[j])}
         IN  IF after = {} THEN None
             ELSE LET j == Min(after)
                      alts == {a \in 1..Len(RsaKeySizeAlternatives) :
                                   HasAt(l, j, RsaKeySizeAlternatives[a])}
                  IN  IF alts = {} THEN None
                      ELSE Some(RsaKeySizeAlternatives[Min(alts)])

\* RSA_KEY_SIZE.captures(line).and_then(|cap| cap.get(1)): group 1 of the
\* leftmost match
RSA_KEY_SIZE(l) ==
    LET starts == {i \in 1..Len(l) : IsSome(RsaKeySizeMatchAt(l, i))}
    IN  IF starts = {} THEN None ELSE RsaKeySizeMatchAt(l, Min(starts))

\* ECDSA_PATTERN: (ECDSA|ECC|elliptic.*curve|secp256k1|secp384r1|prime256v1|P-256|P-384|P-521)
ECDSA_PATTERN(l) ==
    \/ ContainsCI(l, <<"e", "c", "d", "s", "a">>)
    \/ ContainsCI(l, <<"e", "c", "c">>)
    \/ DotStarCI(l, <<"e", "l", "l", "i", "p", "t", "i", "c">>, <<"c", "u", "r", "v", "e">>)
    \/ ContainsCI(l, <<"s", "e", "c", "p", "2", "5", "6", "k", "1">>)
    \/ ContainsCI(l, <<"s", "e", "c", "p", "3", "8", "4", "r", "1">>)
    \/ ContainsCI(l, <<"p", "r", "i", "m", "e", "2", "5", "6", "v", "1">>)
    \/ ContainsCI(l, <<"p", "-", "2", "5", "6">>)
    \/ ContainsCI(l, <<"p", "-", "3", "8", "4">>)
    \/ ContainsCI(l, <<"p", "-", "5", "2", "1">>)

\* ECDH_PATTERN: (ECDH|ecdh|elliptic.*diffie|curve25519)
ECDH_PATTERN(l) ==
    \/ ContainsCI(l, <<"e", "c", "d", "h">>)
    \/ DotStarCI(l, <<"e", "l", "l", "i", "p", "t", "i", "c">>, <<"d", "i", "f", "f", "i", "e">>)
    \/ ContainsCI(l, <<"c", "u", "r", "v", "e", "2", "5", "5", "1", "9">>)

\* DSA_PATTERN: (DSA|dsa)[^a-zA-Z]|(Digital.*Signature.*Algorithm)
DSA_PATTERN(l) ==
    \/ \E i \in 1..Len(l) :
          /\ HasAtCI(l, i, <<"d", "s", "a">>)
          /\ i + 3 <= Len(l)
          /\ ~InLetterClassCI(l[i + 3])
    \/ DotStar3CI(l, <<"d", "i", "g", "i", "t", "a", "l">>, <<"s", "i", "g", "n", "a", "t", "u", "r", "e">>, <<"a", "l", "g", "o", "r", "i", "t", "h", "m">>)

\* DH_PATTERN: (diffie.*hellman|DH_|DHE|DHE_)
DH_PATTERN(l) ==
    \/ DotStarCI(l, <<"d", "i", "f", "f", "i", "e">>, <<"h", "e", "l", "l", "m", "a", "n">>)
    \/ ContainsCI(l, <<"d", "h", "_">>)
    \/ ContainsCI(l, <<"d", "h", "e">>)
    \/ ContainsCI(l, <<"d", "h", "e", "_">>)

\* SHA1_PATTERN: (SHA1|sha1|SHA-1|sha-1)[^0-9]
SHA1_PATTERN(l) ==
    \/ \E i \in 1..Len(l) :
          /\ HasAtCI(l, i, <<"s", "h", "a", "1">>)
          /\ i + 4 <= Len(l)
          /\ ~IsDigit(l[i + 4])
    \/ \E i \in 1..Len(l) :
          /\ HasAtCI(l, i, <<"s", "h", "a", "-", "1">>)
          /\ i + 5 <= Len(l)
          /\ ~IsDigit(l[i + 5])

\* MD5_PATTERN: (MD5|md5)
MD5_PATTERN(l) == ContainsCI(l, <<"m", "d", "5">>)

\* \b (Unicode-aware) at the gap before position i (between l[i-1] and l[i])
\* exactly one of the two characters beside the gap is a word character
WordBoundary(l, i) ==
    Cardinality({j \in {i - 1, i} : j >= 1 /\ j <= Len(l) /\ IsWordChar(l[j])}) = 1

\* DES_PATTERN: (DES_|_DES|\.DES|DES\.|\bDES\b)
DES_PATTERN(l) ==
    \/ ContainsCI(l, <<"d", "e", "s", "_">>)
    \/ ContainsCI(l, <<"_", "d", "e", "s">>)
    \/ ContainsCI(l, <<".", "d", "e", "s">>)
    \/ ContainsCI(l, <<"d", "e", "s", ".">>)
    \/ \E i \in 1..Len(l) :
          HasAtCI(l, i, <<"d", "e", "s">>) /\ \A j \in {i, i + 3} : WordBoundary(l, j)

\* TRIPLE_DES_PATTERN: (3DES|TripleDES|DESede)
TRIPLE_DES_PATTERN(l) ==
    \/ ContainsCI(l, <<"3", "d", "e", "s">>)
    \/ ContainsCI(l, <<"t", "r", "i", "p", "l", "e", "d", "e", "s">>)
    \/ ContainsCI(l, <<"d", "e", "s", "e", "d", "e">>)

\* RC4_PATTERN: (RC4|rc4|ARCFOUR)
RC4_PATTERN(l) ==
    \/ ContainsCI(l, <<"r", "c", "4">>)
    \/ ContainsCI(l, <<"a", "r", "c", "f", "o", "u", "r">>)

----------------------------------------------------------------------------
(* types.rs: Language, Severity, CryptoType, Vulnerability, AuditResult.    *)

Languages ==
    {"Rust", "JavaScript", "TypeScript", "Python", "Java", "Go", "Cpp", "Csharp"}

Severities == {"Low", "Medium", "High", "Critical"}

\* the ten variants of CryptoType, in declaration order
CryptoTypes ==
    <<"Rsa", "Ecdsa", "Ecdh", "Dsa", "DiffieHellman", "Sha1", "Md5", "Des",
      "TripleDes", "Rc4">>

\* the match of Language::from_string on the tag t
match_language(t) ==
    IF t \in {<<"r", "u", "s", "t">>, <<"r", "s">>} THEN Some("Rust")
    ELSE IF t \in {<<"j", "a", "v", "a", "s", "c", "r", "i", "p", "t">>, <<"j", "s">>} THEN Some("JavaScript")
    ELSE IF t \in {<<"t", "y", "p", "e", "s", "c", "r", "i", "p", "t">>, <<"t", "s">>} THEN Some("TypeScript")
    ELSE IF t \in {<<"p", "y", "t", "h", "o", "n">>, <<"p", "y">>} THEN Some("Python")
    ELSE IF t = <<"j", "a", "v", "a">> THEN Some("Java")
    ELSE IF t \in {<<"g", "o">>, <<"g", "o", "l", "a", "n", "g">>} THEN Some("Go")
    ELSE IF t \in {<<"c", "p", "p">>, <<"c", "+", "+">>, <<"c", "x", "x">>} THEN Some("Cpp")
    ELSE IF t \in {<<"c", "s", "h", "a", "r", "p">>, <<"c", "s">>, <<"c", "#">>} THEN Some("Csharp")
    ELSE None

\* from_string without the to_lowercase() of types.rs line 20
from_string_case_sensitive(s) == match_language(s)

\* Language::from_string
from_string(s) == match_language(to_lowercase(s))

\* AuditResult::new
AuditResult_new(lang, lines_scanned) ==
    [vulnerabilities |-> <<>>,
     risk_score      |-> 0,
     language        |-> lang,
     recommendations |-> <<>>,
     stats |-> [total_vulnerabilities |-> 0,
                critical_count |-> 0,
                high_count     |-> 0,
                medium_count   |-> 0,
                low_count      |-> 0,
                lines_scanned  |-> lines_scanned]]

\* add_vulnerability counting a Medium finding as Low and as Medium
add_vulnerability_miscount(r, vuln) ==
    LET s  == r.stats
        s1 == CASE vuln.severity = "Critical" ->
                       [s EXCEPT !.critical_count = @ + 1]
                [] vuln.severity = "High" ->
                       [s EXCEPT !.high_count = @ + 1]
                [] vuln.severity = "Medium" ->
                       [s EXCEPT !.medium_count = @ + 1, !.low_count = @ + 1]
                [] vuln.severity = "Low" ->
                       [s EXCEPT !.low_count = @ + 1]
        s2 == [s1 EXCEPT !.total_vulnerabilities = @ + 1]
    IN  [r EXCEPT !.stats = s2,
                  !.vulnerabilities = Append(@, vuln)]

\* AuditResult::add_vulnerability
add_vulnerability(r, vuln) ==
    LET s  == r.stats
        s1 == CASE vuln.severity = "Critical" ->
                       [s EXCEPT !.critical_count = @ + 1]
                [] vuln.severity = "High" ->
                       [s EXCEPT !.high_count = @ + 1]
                [] vuln.severity = "Medium" ->
                       [s EXCEPT !.medium_count = @ + 1]
                [] vuln.severity = "Low" ->
                       [s EXCEPT !.low_count = @ + 1]
        s2 == [s1 EXCEPT !.total_vulnerabilities = @ + 1]
    IN  [r EXCEPT !.stats = s2,
                  !.vulnerabilities = Append(@, vuln)]

\* a u32 in two 16-bit halves, so that values up to 2^32 - 1 can be written
U32(n) == [hi |-> n \div 65536, lo |-> n % 65536]

Panic(message) == [panicked |-> TRUE, message |-> message]

IsPanic(x) == "panicked" \in DOMAIN x

\* the u32 addition a + b (a in halves, b a number): the sum modulo 2^32 and
\* whether it overflowed
u32_add(a, b) ==
    LET lo == a.lo + (b % 65536)
        hi == a.hi + (b \div 65536) + (lo \div 65536)
    IN  [hi |-> hi % 65536, lo |-> lo % 65536, overflow |-> hi >= 65536]

\* the u32 division a / n (a in halves, n >= 1), and its remainder
u32_div(a, n) == ((a.hi \div n) * 65536) + ((((a.hi % n) * 65536) + a.lo) \div n)

u32_rem(a, n) == (((a.hi % n) * 65536) + a.lo) % n

\* self.vulnerabilities.iter().map(|v| v.risk_score).sum() in u32: the additions
\* go from the first finding to the last; an addition that passes 2^32 - 1
\* panics in a build with overflow checks and wraps modulo 2^32 in one without
RECURSIVE SumRiskScores(_, _)
SumRiskScores(vs, overflow_checks) ==
    IF Len(vs) = 0 THEN U32(0)
    ELSE LET before == SumRiskScores(SubSeq(vs, 1, Len(vs) - 1), overflow_checks)
         IN  IF IsPanic(before) THEN before
             ELSE LET total == u32_add(before, vs[Len(vs)].risk_score)
                  IN  IF total.overflow /\ overflow_checks
                      THEN Panic("attempt to add with overflow")
                      ELSE [hi |-> total.hi, lo |-> total.lo]

\* calculate_risk_score rounding the mean up
calculate_risk_score_ceil(r, overflow_checks) ==
    IF Len(r.vulnerabilities) = 0
    THEN [r EXCEPT !.risk_score = 0]
    ELSE LET total_score == SumRiskScores(r.vulnerabilities, overflow_checks)
             n == Len(r.vulnerabilities)
         IN  IF IsPanic(total_score) THEN total_score
             ELSE [r EXCEPT !.risk_score = u32_div(total_score, n)
                       + (IF u32_rem(total_score, n) # 0 THEN 1 ELSE 0)]

\* AuditResult::calculate_risk_score: the result with its risk_score set, or
\* the panic of the u32 sum; / is u32 division
calculate_risk_score(r, overflow_checks) ==
    IF Len(r.vulnerabilities) = 0
    THEN [r EXCEPT !.risk_score = 0]
    ELSE LET total_score == SumRiskScores(r.vulnerabilities, overflow_checks)
         IN  IF IsPanic(total_score) THEN total_score
             ELSE [r EXCEPT !.risk_score =
                       u32_div(total_score, Len(r.vulnerabilities))]

RecCritical ==
    "CRITICAL: Immediately migrate to quantum-safe algorithms (CRYSTALS-Kyber, CRYSTALS-Dilithium)"

RecHigh ==
    "HIGH PRIORITY: Plan migration to post-quantum cryptography within 6-12 months"

RecRsa ==
    "Replace RSA with CRYSTALS-Dilithium for digital signatures or CRYSTALS-Kyber for encryption"

RecEcdsa ==
    "Replace ECDSA/ECDH with CRYSTALS-Dilithium (signatures) or CRYSTALS-Kyber (key exchange)"

RecDh == "Replace Diffie-Hellman key exchange with CRYSTALS-Kyber or NTRU"

RecNist ==
    "Follow NIST Post-Quantum Cryptography Standardization guidelines: https://csrc.nist.gov/projects/post-quantum-cryptography"

HasType(r, t) ==
    \E i \in 1..Len(r.vulnerabilities) : r.vulnerabilities[i].crypto_type = t

\* AuditResult::generate_recommendations
generate_recommendations(r) ==
    LET a == IF r.stats.critical_count > 0 THEN <<RecCritical>> ELSE <<>>
        b == IF r.stats.high_count > 0 THEN <<RecHigh>> ELSE <<>>
        c == IF HasType(r, "Rsa") THEN <<RecRsa>> ELSE <<>>
        d == IF HasType(r, "Ecdsa") THEN <<RecEcdsa>> ELSE <<>>
        e == IF HasType(r, "DiffieHellman") THEN <<RecDh>> ELSE <<>>
    IN  [r EXCEPT !.recommendations = @ \o a \o b \o c \o d \o e \o <<RecNist>>]

----------------------------------------------------------------------------
(* audit.rs: the ten detectors.  Each returns Option<Vulnerability>.       *)

Vulnerability(t, sev, score, line_num, column, line, message, rec, ks) ==
    [crypto_type    |-> t,
     severity       |-> sev,
     risk_score     |-> score,
     line           |-> line_num,
     column         |-> column,
     context        |-> trim(line),
     message        |-> message,
     recommendation |-> rec,
     key_size       |-> ks]

\* the match of detect_rsa on the extracted key size: (severity, risk_score, message)
\* the grading of detect_rsa with the Critical threshold at 1024
RsaGrade_1024(ks) ==
    IF IsSome(ks) /\ Unwrap(ks) < 1024
    THEN <<"Critical", 100,
           <<"RSA with ", Unwrap(ks), "-bit key is critically vulnerable to quantum attacks">> >>
    ELSE IF IsSome(ks) /\ Unwrap(ks) < 4096
    THEN <<"High", 85,
           <<"RSA with ", Unwrap(ks), "-bit key will be vulnerable to quantum computers">> >>
    ELSE IF IsSome(ks)
    THEN <<"High", 80,
           <<"RSA with ", Unwrap(ks), "-bit key is quantum-vulnerable (Shor's algorithm)">> >>
    ELSE <<"High", 85,
           <<"RSA detected - vulnerable to quantum attacks via Shor's algorithm">> >>

RsaGrade(ks) ==
    IF IsSome(ks) /\ Unwrap(ks) < 2048
    THEN <<"Critical", 100,
           <<"RSA with ", Unwrap(ks), "-bit key is critically vulnerable to quantum attacks">> >>
    ELSE IF IsSome(ks) /\ Unwrap(ks) < 4096
    THEN <<"High", 85,
           <<"RSA with ", Unwrap(ks), "-bit key will be vulnerable to quantum computers">> >>
    ELSE IF IsSome(ks)
    THEN <<"High", 80,
           <<"RSA with ", Unwrap(ks), "-bit key is quantum-vulnerable (Shor's algorithm)">> >>
    ELSE <<"High", 85,
           <<"RSA detected - vulnerable to quantum attacks via Shor's algorithm">> >>

\* cap.get(1).and_then(|m| m.as_str().parse::<u32>().ok()) of detect_rsa
rsa_key_size(cap) == IF IsSome(cap) THEN Some(from_str(Unwrap(cap))) ELSE None

\* the Vulnerability of detect_rsa for the key size ks, graded g
rsa_vulnerability(line, line_num, ks, g) ==
    Vulnerability("Rsa", g[1], g[2], line_num, unwrap_or(find_lower_eq(line, "r"), 0), line, g[3],
                  "Replace with CRYSTALS-Dilithium (signatures) or CRYSTALS-Kyber (encryption)",
                  ks)

\* detect_rsa once the line has matched, with the key size extracted
rsa_finding(line, line_num, ks) == Some(rsa_vulnerability(line, line_num, ks, RsaGrade(ks)))

detect_rsa(line, line_num) ==
    IF ~RSA_PATTERN(line) /\ ~RSA_KEYGEN(line) THEN None
    ELSE rsa_finding(line, line_num, rsa_key_size(RSA_KEY_SIZE(line)))

detect_ecdsa(line, line_num) ==
    IF ~ECDSA_PATTERN(line) THEN None
    ELSE LET column == unwrap_or(find_upper_in(line, <<"E", "C", "D", "S", "A">>), 0)
         IN  Some(Vulnerability("Ecdsa", "High", 85, line_num, column, line,
                  <<"ECDSA (Elliptic Curve Digital Signature Algorithm) is quantum-vulnerable">>,
                  "Replace with CRYSTALS-Dilithium or SPHINCS+ for post-quantum signatures",
                  None))

detect_ecdh(line, line_num) ==
    IF ~ECDH_PATTERN(line) THEN None
    ELSE LET column == unwrap_or(find_upper_in(line, <<"E", "C", "D", "H">>), 0)
         IN  Some(Vulnerability("Ecdh", "High", 85, line_num, column, line,
                  <<"ECDH (Elliptic Curve Diffie-Hellman) is quantum-vulnerable">>,
                  "Replace with CRYSTALS-Kyber or NTRU for quantum-safe key exchange",
                  None))

detect_dsa(line, line_num) ==
    IF ~DSA_PATTERN(line) THEN None
    ELSE LET column == unwrap_or(or_else(find(line, <<"D", "S", "A">>), find(line, <<"d", "s", "a">>)), 0)
         IN  Some(Vulnerability("Dsa", "High", 90, line_num, column, line,
                  <<"DSA (Digital Signature Algorithm) is quantum-vulnerable">>,
                  "Replace with CRYSTALS-Dilithium for post-quantum digital signatures",
                  None))

detect_diffie_hellman(line, line_num) ==
    IF ~DH_PATTERN(line) THEN None
    ELSE LET column == unwrap_or(or_else(find(line, <<"d", "i", "f", "f", "i", "e">>), find(line, <<"D", "H">>)), 0)
         IN  Some(Vulnerability("DiffieHellman", "High", 85, line_num, column, line,
                  <<"Diffie-Hellman key exchange is quantum-vulnerable">>,
                  "Replace with CRYSTALS-Kyber or FrodoKEM for quantum-safe key encapsulation",
                  None))

detect_sha1(line, line_num) ==
    IF ~SHA1_PATTERN(line) THEN None
    ELSE LET column == unwrap_or(or_else(find(line, <<"S", "H", "A", "1">>), find(line, <<"s", "h", "a", "1">>)), 0)
         IN  Some(Vulnerability("Sha1", "Critical", 95, line_num, column, line,
                  <<"SHA-1 is cryptographically broken and should not be used">>,
                  "Replace with SHA-256, SHA-384, or SHA-512",
                  None))

detect_md5(line, line_num) ==
    IF ~MD5_PATTERN(line) THEN None
    ELSE LET column == unwrap_or(or_else(find(line, <<"M", "D", "5">>), find(line, <<"m", "d", "5">>)), 0)
         IN  Some(Vulnerability("Md5", "Critical", 100, line_num, column, line,
                  <<"MD5 is cryptographically broken and must not be used">>,
                  "Replace with SHA-256 or SHA-3",
                  None))

detect_des(line, line_num) ==
    IF ~DES_PATTERN(line) THEN None
    ELSE LET column == unwrap_or(or_else(find(line, <<"D", "E", "S">>), find(line, <<"d", "e", "s">>)), 0)
         IN  Some(Vulnerability("Des", "Critical", 95, line_num, column, line,
                  <<"DES is obsolete and cryptographically weak">>,
                  "Replace with AES-256 or ChaCha20",
                  None))

\* detect_triple_des grading its finding Medium / 60
detect_triple_des_medium(line, line_num) ==
    IF ~TRIPLE_DES_PATTERN(line) THEN None
    ELSE LET column == unwrap_or(or_else(find(line, <<"3", "D", "E", "S">>), find(line, <<"T", "r", "i", "p", "l", "e", "D", "E", "S">>)), 0)
         IN  Some(Vulnerability("TripleDes", "Medium", 60, line_num, column, line,
                  <<"3DES (Triple DES) is deprecated and should be replaced">>,
                  "Replace with AES-256 or ChaCha20-Poly1305",
                  None))

detect_triple_des(line, line_num) ==
    IF ~TRIPLE_DES_PATTERN(line) THEN None
    ELSE LET column == unwrap_or(or_else(find(line, <<"3", "D", "E", "S">>), find(line, <<"T", "r", "i", "p", "l", "e", "D", "E", "S">>)), 0)
         IN  Some(Vulnerability("TripleDes", "High", 80, line_num, column, line,
                  <<"3DES (Triple DES) is deprecated and should be replaced">>,
                  "Replace with AES-256 or ChaCha20-Poly1305",
                  None))

detect_rc4(line, line_num) ==
    IF ~RC4_PATTERN(line) THEN None
    ELSE LET column == unwrap_or(or_else(find(line, <<"R", "C", "4">>), find(line, <<"r", "c", "4">>)), 0)
         IN  Some(Vulnerability("Rc4", "Critical", 95, line_num, column, line,
                  <<"RC4 is cryptographically broken and must not be used">>,
                  "Replace with AES-GCM or ChaCha20-Poly1305",
                  None))

\* score_vulnerability
score_vulnerability(t, ks) ==
    CASE t = "Rsa" ->
             IF IsSome(ks) /\ Unwrap(ks) < 1024 THEN 100
             ELSE IF IsSome(ks) /\ Unwrap(ks) < 2048 THEN 100
             ELSE IF IsSome(ks) /\ Unwrap(ks) < 4096 THEN 85
             ELSE 80
      [] t \in {"Ecdsa", "Ecdh"} -> 85
      [] t = "Dsa" -> 90
      [] t = "DiffieHellman" -> 85
      [] t = "Sha1" -> 95
      [] t = "Md5" -> 100
      [] t = "Des" -> 95
      [] t = "TripleDes" -> 80
      [] t = "Rc4" -> 95

----------------------------------------------------------------------------
(* Source text.  A source is a sequence of runs; a run is `count` equal    *)
(* lines with the text `text`.  Every line ends with a newline, except     *)
(* that the last line of the source has none when final_newline is FALSE   *)
(* (that last line is then not empty).  This writes "x\n".repeat(500000)   *)
(* down without spelling out every line.  The text of a run holds no "\n"; *)
(* a "\r" at its end is the "\r" of a "\r\n" line ending when a newline    *)
(* follows.                                                                *)

RECURSIVE RunsBytes(_)
RunsBytes(runs) ==
    IF Len(runs) = 0 THEN 0
    ELSE runs[1].count * (ByteLen(runs[1].text) + 1) + RunsBytes(Tail(runs))

\* str::len: the length in bytes
source_len(src) ==
    RunsBytes(src.runs) - (IF Len(src.runs) > 0 /\ ~src.final_newline THEN 1 ELSE 0)

\* source.trim().is_empty(): only whitespace (a newline is whitespace)
trim_is_empty(src) ==
    \A i \in 1..Len(src.runs) : trim(src.runs[i].text) = <<>>

RECURSIVE RunsLines(_)
RunsLines(runs) ==
    IF Len(runs) = 0 THEN 0 ELSE runs[1].count + RunsLines(Tail(runs))

\* source.lines().collect().len()
line_count(src) == RunsLines(src.runs)

\* str::lines: one item of the iterator.  A line ends at "\n"; when the text
\* before that "\n" ends with "\r", the "\r" belongs to the line ending.  The
\* last line of a source without a final newline keeps a "\r" at its end.
StripLineEnding(text, terminated) ==
    IF terminated /\ Len(text) > 0 /\ text[Len(text)] = "\r"
    THEN SubSeq(text, 1, Len(text) - 1)
    ELSE text

\* source.lines().collect(): the lines in runs of equal lines.  Every line
\* but the last is followed by "\n"; without a final newline the last line
\* of the last run is the one line that no "\n" follows
source_lines(src) ==
    LET n == Len(src.runs)
        ended == [i \in 1..n |->
                     [text |-> StripLineEnding(src.runs[i].text, TRUE),
                      count |-> src.runs[i].count]]
    IN  IF n = 0 \/ src.final_newline THEN ended
        ELSE SubSeq(ended, 1, n - 1)
             \o (IF src.runs[n].count > 1
                 THEN <<[text |-> ended[n].text, count |-> src.runs[n].count - 1]>>
                 ELSE <<>>)
             \o <<[text |-> src.runs[n].text, count |-> 1]>>

----------------------------------------------------------------------------
(* audit.rs: analyze.                                                      *)

MAX_SOURCE_SIZE == 10 * 1024 * 1024

MAX_LINES == 500000

Ok(v) == [ok |-> TRUE, value |-> v]

Err(kind, args) == [ok |-> FALSE, error |-> [kind |-> kind, args |-> args]]

\* parse_language
parse_language(lang) ==
    LET l == from_string(lang)
    IN  IF IsSome(l) THEN Ok(Unwrap(l)) ELSE Err("UnsupportedLanguage", <<lang>>)

\* if let Some(vuln) = detect_x(line, line_num) { result.add_vulnerability(vuln); }
AddIfSome(r, o) == IF IsSome(o) THEN add_vulnerability(r, Unwrap(o)) ELSE r

\* the if-let statements of the scan loop on the results found, in order
RECURSIVE AddEach(_, _)
AddEach(r, found) ==
    IF Len(found) = 0 THEN r ELSE AddEach(AddIfSome(r, found[1]), Tail(found))

\* the scan of one line with one RSA finding for each of the two RSA rules
\* that match
ScanLine_rsa_per_rule(r, line, line_num) ==
    LET r0  == AddIfSome(r,  detect_rsa(line, line_num))
        r1  == IF RSA_PATTERN(line) /\ RSA_KEYGEN(line)
               THEN AddIfSome(r0, detect_rsa(line, line_num)) ELSE r0
        r2  == AddIfSome(r1, detect_ecdsa(line, line_num))
        r3  == AddIfSome(r2, detect_ecdh(line, line_num))
        r4  == AddIfSome(r3, detect_dsa(line, line_num))
        r5  == AddIfSome(r4, detect_diffie_hellman(line, line_num))
        r6  == AddIfSome(r5, detect_sha1(line, line_num))
        r7  == AddIfSome(r6, detect_md5(line, line_num))
        r8  == AddIfSome(r7, detect_des(line, line_num))
        r9  == AddIfSome(r8, detect_triple_des(line, line_num))
        r10 == AddIfSome(r9, detect_rc4(line, line_num))
    IN  r10

\* the scan of one line with the RSA and MD5 rules exchanged
ScanLine_md5_first(r, line, line_num) ==
    LET r1  == AddIfSome(r,  detect_md5(line, line_num))
        r2  == AddIfSome(r1, detect_ecdsa(line, line_num))
        r3  == AddIfSome(r2, detect_ecdh(line, line_num))
        r4  == AddIfSome(r3, detect_dsa(line, line_num))
        r5  == AddIfSome(r4, detect_diffie_hellman(line, line_num))
        r6  == AddIfSome(r5, detect_sha1(line, line_num))
        r7  == AddIfSome(r6, detect_rsa(line, line_num))
        r8  == AddIfSome(r7, detect_des(line, line_num))
        r9  == AddIfSome(r8, detect_triple_des(line, line_num))
        r10 == AddIfSome(r9, detect_rc4(line, line_num))
    IN  r10

\* the body of the scan loop of analyze for one line: the ten detectors in
\* the order of the source
ScanLine(r, line, line_num) ==
    AddEach(r, <<detect_rsa(line, line_num),
                 detect_ecdsa(line, line_num),
                 detect_ecdh(line, line_num),
                 detect_dsa(line, line_num),
                 detect_diffie_hellman(line, line_num),
                 detect_sha1(line, line_num),
                 detect_md5(line, line_num),
                 detect_des(line, line_num),
                 detect_triple_des(line, line_num),
                 detect_rc4(line, line_num)>>)

\* the scan loop over one run of equal lines, the first of them numbered
\* line_num.  A line on which no detector fires leaves the result as it is,
\* so a run of such lines is passed over in one step.
RECURSIVE ScanRun(_, _, _, _)
ScanRun(r, text, line_num, count) ==
    IF count = 0 THEN r
    ELSE LET r1 == ScanLine(r, text, line_num)
         IN  IF r1 = r THEN r
             ELSE ScanRun(r1, text, line_num + 1, count - 1)

\* the scan loop: for (line_idx, line) in lines.iter().enumerate()
RECURSIVE ScanRuns(_, _, _)
ScanRuns(r, runs, line_num) ==
    IF Len(runs) = 0 THEN r
    ELSE ScanRuns(ScanRun(r, runs[1].text, line_num, runs[1].count),
                  Tail(runs), line_num + runs[1].count)

\* analyze with exclusive limits (>= for >)
analyze_limits_exclusive(src, lang_tag) ==
    LET lang == parse_language(lang_tag)
    IN  IF ~lang.ok THEN lang
        ELSE IF trim_is_empty(src) THEN Err("InvalidSource", <<>>)
        ELSE IF source_len(src) >= MAX_SOURCE_SIZE
             THEN Err("SourceTooLarge", <<source_len(src), MAX_SOURCE_SIZE>>)
        ELSE IF line_count(src) >= MAX_LINES
             THEN Err("TooManyLines", <<line_count(src), MAX_LINES>>)
        ELSE LET r0 == AuditResult_new(lang.value, line_count(src))
                 r1 == ScanRuns(r0, source_lines(src), 1)
                 r2 == calculate_risk_score(r1, TRUE)
                 r3 == generate_recommendations(r2)
             IN  Ok(r3)

\* the u32 sum of calculate_risk_score cannot overflow here: at most ten
\* findings a line, MAX_LINES lines and 100 a finding, so both builds agree
analyze(src, lang_tag) ==
    LET lang == parse_language(lang_tag)
    IN  IF ~lang.ok THEN lang
        ELSE IF trim_is_empty(src) THEN Err("InvalidSource", <<>>)
        ELSE IF source_len(src) > MAX_SOURCE_SIZE
             THEN Err("SourceTooLarge", <<source_len(src), MAX_SOURCE_SIZE>>)
        ELSE IF line_count(src) > MAX_LINES
             THEN Err("TooManyLines", <<line_count(src), MAX_LINES>>)
        ELSE Ok(generate_recommendations(calculate_risk_score(
                    ScanRuns(AuditResult_new(lang.value, line_count(src)), source_lines(src), 1),
                    TRUE)))

----------------------------------------------------------------------------
(* The inputs the model gives to analyze.                                  *)

Prefixes == {<<>>, <<" ", " ">>, <<"v", "a", "r", " ", "k", " ", "=", " ">>}

Keywords ==
    {<<>>, <<"R", "S", "A">>, <<"r", "s", "a">>, <<"R", "s", "a">>, <<"R", "S", "A", ".", "g", "e", "n", "e", "r", "a", "t", "e">>, <<"g", "e", "n", "e", "r", "a", "t", "e", "K", "e", "y", "P", "a", "i", "r", "(", "'", "r", "s", "a", "'", ",">>,
     <<"E", "C", "D", "S", "A">>, <<"e", "c", "d", "s", "a">>, <<"s", "e", "c", "p", "2", "5", "6", "k", "1">>, <<"E", "C", "D", "H">>, <<"c", "u", "r", "v", "e", "2", "5", "5", "1", "9">>,
     <<"D", "S", "A">>, <<"d", "s", "a">>, <<"D", "i", "g", "i", "t", "a", "l", " ", "S", "i", "g", "n", "a", "t", "u", "r", "e", " ", "A", "l", "g", "o", "r", "i", "t", "h", "m">>,
     <<"d", "i", "f", "f", "i", "e", "-", "h", "e", "l", "l", "m", "a", "n">>, <<"D", "H", "_">>, <<"D", "H", "E">>,
     <<"S", "H", "A", "1">>, <<"s", "h", "a", "1">>, <<"S", "H", "A", "-", "1">>, <<"s", "h", "a", "-", "1">>, <<"s", "h", "a", "2", "5", "6">>,
     <<"M", "D", "5">>, <<"m", "d", "5">>, <<"D", "E", "S">>, <<"d", "e", "s">>, <<"D", "E", "S", "_">>,
     <<"3", "D", "E", "S">>, <<"T", "r", "i", "p", "l", "e", "D", "E", "S">>, <<"D", "E", "S", "e", "d", "e">>, <<"R", "C", "4">>, <<"r", "c", "4">>, <<"A", "R", "C", "F", "O", "U", "R">>,
     <<"k", "y", "b", "e", "r">>}

Suffixes ==
    {<<>>, <<"(", "1", "0", "2", "4", ")">>, <<"(", "2", "0", "4", "8", ")">>, <<"(", "4", "0", "9", "6", ")">>, <<"(", "7", "6", "8", ")">>, <<"(", "d", "a", "t", "a", ")">>, <<"x">>, <<"1", ";">>}

\* one keyword with something before and after it
KeywordLines == {p \o k \o s : p \in Prefixes, k \in Keywords, s \in Suffixes}

\* several primitives on one line, and lines of the repository's tests
ComboLines ==
    {<<"R", "C", "4", " ", "3", "D", "E", "S", " ", "D", "E", "S", "_", " ", "M", "D", "5", " ", "S", "H", "A", "1", " ", "D", "H", "E", " ", "D", "S", "A", " ", "E", "C", "D", "H", " ", "E", "C", "D", "S", "A", " ", "R", "S", "A", " ", "1", "0", "2", "4">>,
     <<"m", "d", "5", " ", "r", "s", "a", " ", "8", "1", "9", "2">>,
     <<"r", "s", "a", " ", "9", "9", " ", "R", "S", "A", " ", "3", "0", "7", "2">>,
     <<"r", "s", "a", "5", "1", "2", " ", "r", "s", "a", " ", "4", "0", "9", "6">>,
     <<"c", "r", "y", "p", "t", "o", ".", "c", "r", "e", "a", "t", "e", "S", "i", "g", "n", "(", "'", "e", "c", "d", "s", "a", "-", "w", "i", "t", "h", "-", "S", "H", "A", "2", "5", "6", "'", ")">>,
     <<"f", "r", "o", "m", " ", "C", "r", "y", "p", "t", "o", ".", "P", "u", "b", "l", "i", "c", "K", "e", "y", " ", "i", "m", "p", "o", "r", "t", " ", "R", "S", "A", ",", " ", "D", "S", "A">>,
     <<"h", "a", "s", "h", "l", "i", "b", ".", "m", "d", "5", "(", "d", "a", "t", "a", ")", ".", "h", "e", "x", "d", "i", "g", "e", "s", "t", "(", ")">>,
     <<"c", "o", "n", "s", "t", " ", "x", " ", "=", " ", "R", "S", "A", ".", "g", "e", "n", "e", "r", "a", "t", "e", "(", "2", "0", "4", "8", ")", ";">>,
     <<"l", "e", "t", " ", "(", "p", "k", ",", " ", "s", "k", ")", " ", "=", " ", "k", "e", "y", "p", "a", "i", "r", "(", ")", ";">>}

\* lines with a carriage return, form feed or vertical tab, and lines with
\* characters outside ASCII: white space, letters and digits of other scripts,
\* characters of two, three and four bytes, characters whose upper case is
\* several characters
EdgeLines ==
    {<<"s", "h", "a", "1", "\r">>,
     <<"d", "s", "a", "\r">>,
     <<"m", "d", "5", "\r", "\r">>,
     <<FormFeed>>,
     <<VerticalTab, NoBreakSpace, NextLine, LineSeparator>>,
     <<FormFeed, "R", "S", "A">>,
     <<" ", "m", "d", "5", FormFeed>>,
     <<SharpS, " ", "e", "c", "d", "s", "a">>,
     <<"d", "s", "a", KelvinSign>>,
     <<"r", LongS, "a", " ", "1", "0", "2", "4">>,
     <<SmallEAcute, "D", "E", "S">>,
     <<"D", "E", "S", SmallEAcute>>,
     <<SmallEAcute, " ", "r", "s", "a">>,
     <<LongS, "h", "a", "1", " ">>,
     <<"3", "d", "e", LongS>>,
     <<CapitalIDot, ArabicZero, " ", "D", "H", "_">>,
     <<"d", "e", LongS, "_">>,
     <<SmallEAcute, " ", "m", "d", "5">>,
     <<EmSpace>>,
     <<EmSpace, IdeographicSpace>>,
     <<EmSpace, "m", "d", "5", EmSpace>>,
     <<EmSpace, "d", "i", "f", "f", "i", "e", "-", "h", "e", "l", "l", "m", "a", "n">>,
     <<SmallNTilde, " ", "m", "d", "5">>,
     <<SmallNTilde, "D", "E", "S">>,
     <<"D", "E", "S", SmallNTilde>>,
     <<ArabicOne, "D", "E", "S">>,
     <<CjkMiddle, "D", "E", "S">>,
     <<EuroSign, "D", "E", "S">>,
     <<SmallNTilde, " ", "r", "s", "a", " ", "2", "0", "4", "8">>,
     <<EuroSign, " ", "r", "s", "a", " ", "2", "0", "4", "8">>,
     <<CapitalAGrave, " ", "r", "s", "a">>,
     <<SmallNTilde, " ", "D", "H", "_", " ", "x">>,
     <<LigatureLongST, " ", "E", "C", "D", "S", "A">>,
     <<SmallAGrave, " ", "e", "c", "d", "s", "a">>,
     <<SmallHLineBelow, " ", "e", "c", "d", "h">>,
     <<LigatureST, " ", "e", "c", "d", "h">>,
     <<SmallARightHalfRing, " ", "E", "C", "C">>,
     <<MicroSign, " ", "d", "s", "a", " ">>,
     <<"d", "s", "a", CjkMiddle>>,
     <<GrinningFace, " ", "r", "c", "4">>,
     <<GrinningFace, CapitalSigma, " ", "s", "h", "a", "1", " ">>}

\* the lines of the sources of several lines
SmallLines ==
    {<<>>, <<" ", " ">>, <<"x">>, <<"R", "S", "A", ".", "g", "e", "n", "e", "r", "a", "t", "e", "(", "1", "0", "2", "4", ")">>, <<"m", "d", "5", " ", "r", "s", "a", " ", "4", "0", "9", "6">>, <<"s", "h", "a", "1", "(", "x", ")">>,
     <<"R", "C", "4", " ", "3", "D", "E", "S", " ", "D", "E", "S", "_", " ", "M", "D", "5", " ", "S", "H", "A", "1", " ", "D", "H", "E", " ", "D", "S", "A", " ", "E", "C", "D", "H", " ", "E", "C", "D", "S", "A", " ", "R", "S", "A", " ", "1", "0", "2", "4">>}

\* the lines of the long sources: 1 + 1, 31 + 1 and 1 + 1 bytes a line
FillTexts == {<<"x">>, <<"x", "x", "x", "x", "x", "x", "x", "x", "x", "x", "x", "x", "x", "x", "x", "x", "x", "x", "x", "x", "x", "x", "x", "x", "x", "x", "x", "x", "x", "x", "x">>, <<" ">>}

MaxLines == 3

FillCounts ==
    {MAX_LINES - 1, MAX_LINES, MAX_LINES + 1,
     (MAX_SOURCE_SIZE \div 32) - 1, MAX_SOURCE_SIZE \div 32, (MAX_SOURCE_SIZE \div 32) + 1,
     600000, 6000000}

Run(text, count) == [text |-> text, count |-> count]

SingleLineSources ==
    {[runs |-> <<Run(l, 1)>>, final_newline |-> FALSE] : l \in KeywordLines}
    \cup {[runs |-> <<Run(l, 1)>>, final_newline |-> b] :
              l \in ComboLines \cup EdgeLines, b \in BOOLEAN}

\* sources with "\r\n" line endings
CrLfSources ==
    {[runs |-> <<Run(<<"d", "s", "a", "\r">>, 1), Run(<<"x", "\r">>, 1)>>, final_newline |-> TRUE],
     [runs |-> <<Run(<<"s", "h", "a", "1", "\r">>, 2), Run(<<"m", "d", "5", "\r">>, 1)>>, final_newline |-> FALSE],
     [runs |-> <<Run(<<" ", "\r">>, 2)>>, final_newline |-> TRUE]}

MultiLineSources ==
    UNION {{[runs |-> [i \in 1..n |-> Run(ls[i], 1)], final_newline |-> TRUE] :
               ls \in [1..n -> SmallLines]} : n \in 0..MaxLines}

LongSources ==
    {[runs |-> head \o <<Run(t, c)>>, final_newline |-> b] :
        head \in {<<>>, <<Run(<<>>, 1)>>, <<Run(<<"R", "S", "A", ".", "g", "e", "n", "e", "r", "a", "t", "e", "(", "1", "0", "2", "4", ")">>, 1)>>},
        t \in FillTexts, c \in FillCounts, b \in BOOLEAN}

\* a source is a text: its last line, when it has no newline, is not empty;
\* the lines of a run are equal as str::lines gives them, so a last line that
\* keeps its "\r" is a run of its own
WellFormed(src) ==
    \/ src.final_newline
    \/ /\ Len(src.runs) > 0
       /\ src.runs[Len(src.runs)].text # <<>>
       /\ \/ src.runs[Len(src.runs)].count = 1
          \/ StripLineEnding(src.runs[Len(src.runs)].text, TRUE) = src.runs[Len(src.runs)].text

\* the text of the lines of run k of a source, as str::lines gives them
LineText(src, k) ==
    StripLineEnding(src.runs[k].text, k < Len(src.runs) \/ src.final_newline)

Sources ==
    {s \in SingleLineSources \cup CrLfSources \cup MultiLineSources \cup LongSources :
         WellFormed(s)}

Aliases ==
    {<<"r", "u", "s", "t">>, <<"r", "s">>, <<"j", "a", "v", "a", "s", "c", "r", "i", "p", "t">>, <<"j", "s">>, <<"t", "y", "p", "e", "s", "c", "r", "i", "p", "t">>, <<"t", "s">>, <<"p", "y", "t", "h", "o", "n">>,
     <<"p", "y">>, <<"j", "a", "v", "a">>, <<"g", "o">>, <<"g", "o", "l", "a", "n", "g">>, <<"c", "p", "p">>, <<"c", "+", "+">>, <<"c", "x", "x">>, <<"c", "s", "h", "a", "r", "p">>,
     <<"c", "s">>, <<"c", "#">>}

\* str::to_uppercase
RECURSIVE to_uppercase(_)
to_uppercase(s) ==
    IF Len(s) = 0 THEN <<>> ELSE UpperChar(s[1]) \o to_uppercase(Tail(s))

Capitalize(s) == IF Len(s) = 0 THEN s ELSE UpperChar(s[1]) \o Tail(s)

OtherTags ==
    {<<>>, <<"c", "o", "b", "o", "l">>, <<"i", "n", "v", "a", "l", "i", "d", "_", "l", "a", "n", "g">>, <<"c">>, <<"r", "u", "s", "t", " ">>, <<"r", "u", "b", "y">>, <<"j", "a", "v", "a", "s", "c", "r", "i", "p", "t", "x">>,
     <<"r", LongS>>, <<"J", CapitalSigma>>, <<CapitalAGrave, "G", "O">>, <<"c", KelvinSign>>}

Tags ==
    UNION {{a, to_uppercase(a), Capitalize(a)} : a \in Aliases} \cup OtherTags

FewTags == {<<"P", "Y">>, <<"c", "o", "b", "o", "l">>}

FewSources ==
    {[runs |-> <<>>, final_newline |-> TRUE],
     [runs |-> <<Run(<<" ", " ">>, 1)>>, final_newline |-> TRUE],
     [runs |-> <<Run(<<"c", "o", "n", "s", "t", " ", "x", " ", "=", " ", "R", "S", "A", ".", "g", "e", "n", "e", "r", "a", "t", "e", "(", "2", "0", "4", "8", ")", ";">>, 1)>>, final_newline |-> FALSE],
     [runs |-> <<Run(<<"m", "d", "5", " ", "r", "s", "a", " ", "4", "0", "9", "6">>, 1), Run(<<"s", "h", "a", "1", "(", "x", ")">>, 1)>>, final_newline |-> TRUE],
     [runs |-> <<Run(<<"x">>, MAX_LINES + 1)>>, final_newline |-> TRUE]}

AnalyzeInputs == (Sources \X FewTags) \cup (FewSources \X Tags)

----------------------------------------------------------------------------
(* The caller of analyze: one call on the inputs drawn at the start.       *)

NoOutcome == [ok |-> FALSE, error |-> [kind |-> "NotCalled", args |-> <<>>]]

Idle == <<>>

Init ==
    /\ \E in \in AnalyzeInputs : source = in[1] /\ language = in[2]
    /\ outcome = NoOutcome
    /\ result = Idle
    /\ crypto_type = Idle
    /\ key_size = Idle
    /\ classification = Idle
    /\ db = Idle
    /\ answer = Idle
    /\ pc = "call"
    /\ cell = Idle
    /\ threads = Idle
    /\ walk = Idle
    /\ dataset = Idle

Analyze ==
    /\ pc = "call"
    /\ outcome' = analyze(source, language)
    /\ pc' = "returned"
    /\ UNCHANGED <<source, language, result, crypto_type, key_size,
                   classification, db, answer,
                   cell, threads, walk, dataset>>

Next == Analyze

Spec == Init /\ [][Next]_vars

----------------------------------------------------------------------------
(* The caller of score_vulnerability: one call on the arguments drawn at   *)
(* the start.                                                              *)

\* u32 key sizes around the thresholds of the scoring table, up to 2^31 - 1
KeySizes ==
    {0, 1, 512, 768, 1023, 1024, 1025, 1536, 2047, 2048, 2049, 3072, 4095, 4096,
     4097, 8192, 2147483647}

OptionKeySizes == {None} \cup {Some(k) : k \in KeySizes}

InitScore ==
    /\ crypto_type \in Range(CryptoTypes)
    /\ key_size \in OptionKeySizes
    /\ answer = Idle
    /\ source = Idle
    /\ language = Idle
    /\ outcome = NoOutcome
    /\ result = Idle
    /\ classification = Idle
    /\ db = Idle
    /\ pc = "call"
    /\ cell = Idle
    /\ threads = Idle
    /\ walk = Idle
    /\ dataset = Idle

ScoreVulnerability ==
    /\ pc = "call"
    /\ answer' = score_vulnerability(crypto_type, key_size)
    /\ pc' = "returned"
    /\ UNCHANGED <<source, language, outcome, result, crypto_type, key_size,
                   classification, db,
                   cell, threads, walk, dataset>>

NextScore == ScoreVulnerability

SpecScore == InitScore /\ [][NextScore]_vars

----------------------------------------------------------------------------
(* A caller that builds an AuditResult by hand through the public methods  *)
(* of types.rs, in any order.                                              *)

MaxFindings == 3

MaxRecommendations == 4

\* hand-built findings of every severity, and findings whose scores add up
\* to 2^32 and more (risk_score is a pub u32 field, a caller can set any value)
SampleVulnerabilities ==
    {Vulnerability("Rsa", "Critical", 2147483647, 4, 0, <<"r", "s", "a">>, <<"m">>, "r", None),
     Vulnerability("Md5", "Low", 2, 5, 0, <<"m", "d", "5">>, <<"m">>, "r", None)} \cup
    {Vulnerability("Md5", "Critical", 100, 1, 0, <<"m", "d", "5">>, <<"m">>, "r", None),
     Vulnerability("Rsa", "High", 85, 2, 4, <<"r", "s", "a", " ", "2", "0", "4", "8">>, <<"m">>, "r", Some(2048)),
     Vulnerability("Ecdsa", "Medium", 50, 3, 0, <<"e", "c", "d", "s", "a">>, <<"m">>, "r", None),
     Vulnerability("DiffieHellman", "Low", 10, 3, 2, <<"D", "H", "_">>, <<"m">>, "r", None)}

InitBuilder ==
    /\ \E lang \in {"Rust", "Python"}, n \in {0, 10} :
           result = AuditResult_new(lang, n)
    /\ source = Idle
    /\ language = Idle
    /\ outcome = NoOutcome
    /\ crypto_type = Idle
    /\ key_size = Idle
    /\ classification = Idle
    /\ db = Idle
    /\ answer = Idle
    /\ pc = "building"
    /\ cell = Idle
    /\ threads = Idle
    /\ walk = Idle
    /\ dataset = Idle

AddVulnerability ==
    /\ pc = "building"
    /\ Len(result.vulnerabilities) < MaxFindings
    /\ \E v \in SampleVulnerabilities : result' = add_vulnerability(result, v)
    /\ UNCHANGED <<source, language, outcome, crypto_type, key_size,
                   classification, db, answer, pc,
                   cell, threads, walk, dataset>>

CalculateRiskScore ==
    /\ pc = "building"
    /\ \E overflow_checks \in BOOLEAN :
           LET out == calculate_risk_score(result, overflow_checks)
           IN  IF IsPanic(out)
               THEN /\ answer' = out
                    /\ pc' = "panicked"
                    /\ UNCHANGED result
               ELSE /\ result' = out
                    /\ UNCHANGED <<answer, pc>>
    /\ UNCHANGED <<source, language, outcome, crypto_type, key_size,
                   classification, db,
                   cell, threads, walk, dataset>>

GenerateRecommendations ==
    /\ pc = "building"
    /\ Len(generate_recommendations(result).recommendations) <= MaxRecommendations
    /\ result' = generate_recommendations(result)
    /\ UNCHANGED <<source, language, outcome, crypto_type, key_size,
                   classification, db, answer, pc,
                   cell, threads, walk, dataset>>

NextBuilder == AddVulnerability \/ CalculateRiskScore \/ GenerateRecommendations

SpecBuilder == InitBuilder /\ [][NextBuilder]_vars

----------------------------------------------------------------------------
(* algorithm_database.rs.  ALGORITHM_DB is the variable db: the rows of    *)
(* data/cccs_algorithms.json, read and never written.                      *)

SecurityClassifications == {"Unclassified", "ProtectedA", "ProtectedB", "ProtectedC"}

CCCSApprovalStatuses ==
    {"Approved", "ConditionallyApproved", "Deprecated", "Prohibited", "UnderReview"}

\* the algorithm rows of the dataset: name -> entry
BaseAlgorithms ==
    [n \in {"AES", "RSA", "ECDSA", "ECDH", "DH", "DSA", "3DES", "SHA-1", "MD5",
            "DES", "RC4"} |->
        [algorithm |-> n,
         cccs_status |->
            CASE n = "AES" -> "approved"
              [] n \in {"RSA", "ECDSA", "ECDH", "DH"} -> "conditionally-approved"
              [] n \in {"DSA", "3DES"} -> "deprecated"
              [] n \in {"SHA-1", "MD5", "DES", "RC4"} -> "prohibited",
         itsp_reference |-> "ITSP.40.111",
         approved_key_sizes |->
            CASE n = "AES" -> <<128, 192, 256>>
              [] n \in {"RSA", "DH"} -> <<2048, 3072, 4096>>
              [] n \in {"ECDSA", "ECDH"} -> <<256, 384, 521>>
              [] OTHER -> <<>>,
         cmvp_required |-> n \in {"AES", "RSA", "ECDSA", "ECDH", "DH"},
         conditions |->
            IF n \in {"RSA", "ECDSA", "ECDH", "DH"}
            THEN <<"Legacy systems only", "Plan post-quantum migration">>
            ELSE <<>>]]

Requirements(aes, rsa, ecc, cmvp) ==
    [minimum_aes_key_size |-> aes,
     minimum_rsa_key_size |-> rsa,
     minimum_ecc_key_size |-> ecc,
     cmvp_required        |-> cmvp]

\* the classification_requirements section of the dataset: one entry a level
BaseRequirements ==
    [k \in {"UNCLASSIFIED", "PROTECTED_A", "PROTECTED_B", "PROTECTED_C"} |->
        CASE k = "UNCLASSIFIED" -> Requirements(128, 2048, 256, FALSE)
          [] k = "PROTECTED_A"  -> Requirements(128, 2048, 256, TRUE)
          [] k = "PROTECTED_B"  -> Requirements(256, 3072, 384, TRUE)
          [] k = "PROTECTED_C"  -> Requirements(256, 4096, 384, TRUE)]

\* a second dataset with other minimums
AltRequirements ==
    [k \in {"UNCLASSIFIED", "PROTECTED_A", "PROTECTED_B", "PROTECTED_C"} |->
        CASE k = "UNCLASSIFIED" -> Requirements(128, 1024, 224, FALSE)
          [] k = "PROTECTED_A"  -> Requirements(128, 2048, 224, TRUE)
          [] k = "PROTECTED_B"  -> Requirements(192, 2048, 256, TRUE)
          [] k = "PROTECTED_C"  -> Requirements(256, 3072, 521, TRUE)]

BaseDb == [algorithms |-> BaseAlgorithms, classification_requirements |-> BaseRequirements]

\* the values of cccs_status a dataset may hold: the five known ones and others
StatusStrings ==
    {"approved", "conditionally-approved", "deprecated", "prohibited", "under-review",
     "Approved", "retired"}

Restrict(f, S) == [x \in S |-> f[x]]

\* datasets that differ from the base one in one algorithm row: the row has
\* another status, or it is missing
AlgorithmVariants ==
    {[BaseDb EXCEPT !.algorithms[n].cccs_status = s] :
        n \in DOMAIN BaseAlgorithms, s \in StatusStrings}
    \cup {[BaseDb EXCEPT !.algorithms = Restrict(@, DOMAIN @ \ {n})] :
             n \in DOMAIN BaseAlgorithms}

RequirementVariants ==
    {BaseDb, [BaseDb EXCEPT !.classification_requirements = AltRequirements]}

\* parse_cccs_status
parse_cccs_status(status) ==
    CASE status = "approved" -> "Approved"
      [] status = "conditionally-approved" -> "ConditionallyApproved"
      [] status = "deprecated" -> "Deprecated"
      [] status = "prohibited" -> "Prohibited"
      [] status = "under-review" -> "UnderReview"
      [] OTHER -> "UnderReview"

\* get_algorithm_validation
get_algorithm_validation(algorithm) ==
    IF algorithm \notin DOMAIN db.algorithms THEN None
    ELSE LET entry == db.algorithms[algorithm]
         IN  Some([algorithm   |-> entry.algorithm,
                   cccs_status |-> parse_cccs_status(entry.cccs_status),
                   itsp_reference |-> entry.itsp_reference,
                   approved_key_sizes |-> entry.approved_key_sizes,
                   cmvp_required |-> entry.cmvp_required,
                   conditions |-> entry.conditions])

\* the match of get_cccs_status from the CryptoType to the name of its row
algorithm_name(t) ==
    CASE t = "Rsa" -> "RSA"
      [] t = "Ecdsa" -> "ECDSA"
      [] t = "Ecdh" -> "ECDH"
      [] t = "Dsa" -> "DSA"
      [] t = "DiffieHellman" -> "DH"
      [] t = "Sha1" -> "SHA-1"
      [] t = "Md5" -> "MD5"
      [] t = "Des" -> "DES"
      [] t = "TripleDes" -> "3DES"
      [] t = "Rc4" -> "RC4"

\* get_cccs_status taking an absent row for approved
get_cccs_status_default_approved(t) ==
    LET v == get_algorithm_validation(algorithm_name(t))
    IN  IF IsSome(v) THEN Unwrap(v).cccs_status ELSE "Approved"

\* get_cccs_status
get_cccs_status(t) ==
    LET v == get_algorithm_validation(algorithm_name(t))
    IN  IF IsSome(v) THEN Unwrap(v).cccs_status ELSE "UnderReview"

is_cccs_approved(t) == get_cccs_status(t) = "Approved"

is_cccs_prohibited(t) == get_cccs_status(t) = "Prohibited"

is_cccs_deprecated(t) == get_cccs_status(t) = "Deprecated"

\* get_classification_requirements
get_classification_requirements(c) ==
    LET key == CASE c = "Unclassified" -> "UNCLASSIFIED"
                 [] c = "ProtectedA" -> "PROTECTED_A"
                 [] c = "ProtectedB" -> "PROTECTED_B"
                 [] c = "ProtectedC" -> "PROTECTED_C"
    IN  IF key \in DOMAIN db.classification_requirements
        THEN Some(db.classification_requirements[key])
        ELSE None

\* validate_key_size with strict comparisons (> for >=)
validate_key_size_strict(t, ks, c) ==
    LET req == get_classification_requirements(c)
    IN  IF ~IsSome(req) THEN FALSE
        ELSE CASE t = "Rsa" -> ks > Unwrap(req).minimum_rsa_key_size
               [] t \in {"Ecdsa", "Ecdh"} -> ks > Unwrap(req).minimum_ecc_key_size
               [] OTHER -> TRUE

\* validate_key_size
validate_key_size(t, ks, c) ==
    LET req == get_classification_requirements(c)
    IN  IF ~IsSome(req) THEN FALSE
        ELSE CASE t = "Rsa" -> ks >= Unwrap(req).minimum_rsa_key_size
               [] t \in {"Ecdsa", "Ecdh"} -> ks >= Unwrap(req).minimum_ecc_key_size
               [] OTHER -> TRUE

----------------------------------------------------------------------------
(* The callers of the database queries: one query on the arguments drawn   *)
(* at the start.                                                           *)

DbKeySizes ==
    {0, 223, 224, 255, 256, 257, 383, 384, 385, 520, 521, 1023, 1024, 2047, 2048,
     2049, 3071, 3072, 3073, 4095, 4096, 8192}

InitDb ==
    /\ \/ /\ db \in RequirementVariants
          /\ key_size \in DbKeySizes
          /\ classification \in SecurityClassifications
       \/ /\ db \in AlgorithmVariants
          /\ key_size = 2048
          /\ classification = "ProtectedA"
    /\ crypto_type \in Range(CryptoTypes)
    /\ answer = Idle
    /\ source = Idle
    /\ language = Idle
    /\ outcome = NoOutcome
    /\ result = Idle
    /\ pc = "call"
    /\ cell = Idle
    /\ threads = Idle
    /\ walk = Idle
    /\ dataset = Idle

ValidateKeySize ==
    /\ pc = "call"
    /\ answer' = validate_key_size(crypto_type, key_size, classification)
    /\ pc' = "validated"
    /\ UNCHANGED <<source, language, outcome, result, crypto_type, key_size,
                   classification, db,
                   cell, threads, walk, dataset>>

\* get_cccs_status and its three projections, asked one after the other
QueryStatus ==
    /\ pc = "call"
    /\ answer' = [status     |-> get_cccs_status(crypto_type),
                  approved   |-> is_cccs_approved(crypto_type),
                  prohibited |-> is_cccs_prohibited(crypto_type),
                  deprecated |-> is_cccs_deprecated(crypto_type)]
    /\ pc' = "status"
    /\ UNCHANGED <<source, language, outcome, result, crypto_type, key_size,
                   classification, db,
                   cell, threads, walk, dataset>>

NextDb == ValidateKeySize \/ QueryStatus

SpecDb == InitDb /\ [][NextDb]_vars

----------------------------------------------------------------------------
(* Properties.                                                             *)

\* the score of the table of section 4.2 of the specification
TableScore(t, ks) ==
    CASE t = "Rsa" ->
             IF ~IsSome(ks) THEN 85
             ELSE IF Unwrap(ks) < 2048 THEN 100
             ELSE IF Unwrap(ks) < 4096 THEN 85
             ELSE 80
      [] t = "Ecdsa" -> 85
      [] t = "Ecdh" -> 85
      [] t = "Dsa" -> 90
      [] t = "DiffieHellman" -> 85
      [] t = "Sha1" -> 95
      [] t = "Md5" -> 100
      [] t = "Des" -> 95
      [] t = "TripleDes" -> 80
      [] t = "Rc4" -> 95

\* C1: for every primitive and every key size, absent ones included,
\* score_vulnerability returns the score of the table of section 4.2 (RSA with
\* an absent key size: 85).
C1_ScoreMatchesTable ==
    pc = "returned" => answer = TableScore(crypto_type, key_size)

\* the tag names a supported language, in any letter case
TagIsAlias(tag) == \E a \in Aliases : to_lowercase(tag) = a

ErrorKind(o) == IF o.ok THEN "Ok" ELSE o.error.kind

WithinLimits(src) ==
    source_len(src) <= 10 * 1024 * 1024 /\ line_count(src) <= 500000

\* C2: the entrance checks of analyze come in the order non-empty, size,
\* line count, language, and the first failing check of that order gives the
\* error; an empty source gives InvalidSource under any tag, supported or not.
C2_ChecksInStatedOrder ==
    pc = "returned" =>
        ErrorKind(outcome) =
            IF trim_is_empty(source) THEN "InvalidSource"
            ELSE IF source_len(source) > 10 * 1024 * 1024 THEN "SourceTooLarge"
            ELSE IF line_count(source) > 500000 THEN "TooManyLines"
            ELSE IF ~TagIsAlias(language) THEN "UnsupportedLanguage"
            ELSE "Ok"

\* C3: for a supported language and a source that is not whitespace-only, a
\* source of exactly 10 MiB is accepted and one of 10 MiB + 1 bytes returns
\* SourceTooLarge(size, 10 MiB); a source of exactly 500,000 lines is accepted
\* and one of 500,001 lines returns TooManyLines(count, 500000).
C3_LimitsInclusive ==
    (pc = "returned" /\ TagIsAlias(language) /\ ~trim_is_empty(source)) =>
        /\ (source_len(source) = 10 * 1024 * 1024 /\ line_count(source) <= 500000)
               => outcome.ok
        /\ source_len(source) = 10 * 1024 * 1024 + 1
               => outcome = Err("SourceTooLarge",
                                <<10 * 1024 * 1024 + 1, 10 * 1024 * 1024>>)
        /\ (line_count(source) = 500000 /\ source_len(source) <= 10 * 1024 * 1024)
               => outcome.ok
        /\ (line_count(source) = 500001 /\ source_len(source) <= 10 * 1024 * 1024)
               => outcome = Err("TooManyLines", <<500001, 500000>>)
        /\ WithinLimits(source) <=> outcome.ok

\* C3: a source of exactly 10 MiB was accepted.
C3_Witness ==
    /\ pc = "returned"
    /\ source_len(source) = 10 * 1024 * 1024
    /\ outcome.ok

\* the language an alias names
AliasLanguage(a) ==
    CASE a \in {<<"r", "u", "s", "t">>, <<"r", "s">>} -> "Rust"
      [] a \in {<<"j", "a", "v", "a", "s", "c", "r", "i", "p", "t">>, <<"j", "s">>} -> "JavaScript"
      [] a \in {<<"t", "y", "p", "e", "s", "c", "r", "i", "p", "t">>, <<"t", "s">>} -> "TypeScript"
      [] a \in {<<"p", "y", "t", "h", "o", "n">>, <<"p", "y">>} -> "Python"
      [] a \in {<<"j", "a", "v", "a">>} -> "Java"
      [] a \in {<<"g", "o">>, <<"g", "o", "l", "a", "n", "g">>} -> "Go"
      [] a \in {<<"c", "p", "p">>, <<"c", "+", "+">>, <<"c", "x", "x">>} -> "Cpp"
      [] a \in {<<"c", "s", "h", "a", "r", "p">>, <<"c", "s">>, <<"c", "#">>} -> "Csharp"

\* C4: under every supported alias, in any letter case, analyze on a non-empty
\* source within the limits returns Ok with the language the alias names; every
\* other tag returns UnsupportedLanguage with the tag as given; the findings are
\* those of the same source under the tag "rust".
C4_LanguageAliases ==
    pc = "returned" =>
        IF TagIsAlias(language)
        THEN (~trim_is_empty(source) /\ WithinLimits(source)) =>
                 /\ outcome.ok
                 /\ outcome.value.language = AliasLanguage(to_lowercase(language))
                 /\ outcome.value.vulnerabilities =
                        analyze(source, <<"r", "u", "s", "t">>).value.vulnerabilities
        ELSE outcome = Err("UnsupportedLanguage", <<language>>)

\* C4: the tag GOLANG was accepted as Go, with findings.
C4_Witness ==
    /\ pc = "returned"
    /\ language = <<"G", "O", "L", "A", "N", "G">>
    /\ outcome.ok
    /\ outcome.value.language = "Go"
    /\ Len(outcome.value.vulnerabilities) > 0

\* the number of the first line of run k of a source
RECURSIVE FirstLine(_, _)
FirstLine(src, k) ==
    IF k = 1 THEN 1 ELSE FirstLine(src, k - 1) + src.runs[k - 1].count

RsaDetected(l) == RSA_PATTERN(l) \/ RSA_KEYGEN(l)

\* severity and score of an RSA finding by its key size
RsaGradeOk(f) ==
    /\ f.severity \in {"High", "Critical"}
    /\ IF ~IsSome(f.key_size) THEN f.severity = "High" /\ f.risk_score = 85
       ELSE IF Unwrap(f.key_size) < 2048
            THEN f.severity = "Critical" /\ f.risk_score = 100
       ELSE IF Unwrap(f.key_size) < 4096
            THEN f.severity = "High" /\ f.risk_score = 85
       ELSE f.severity = "High" /\ f.risk_score = 80

\* C5: for a line on which RSA is detected, analyze emits exactly one RSA
\* finding; its key size is the one extracted from the line and its severity
\* and risk score follow that key size: < 2048 Critical/100, 2048..4095
\* High/85, >= 4096 High/80, none High/85.
C5_RsaGrading ==
    (pc = "returned" /\ outcome.ok) =>
        \A k \in 1..Len(source.runs) :
            LET l  == LineText(source, k)
                vs == outcome.value.vulnerabilities
                cap == RSA_KEY_SIZE(l)
            IN  IF ~RsaDetected(l)
                THEN \A i \in 1..Len(vs) :
                         vs[i].crypto_type = "Rsa" =>
                             \/ vs[i].line < FirstLine(source, k)
                             \/ vs[i].line >= FirstLine(source, k) + source.runs[k].count
                ELSE \A n \in FirstLine(source, k)
                              ..(FirstLine(source, k) + source.runs[k].count - 1) :
                         LET fs == {i \in 1..Len(vs) :
                                        vs[i].line = n /\ vs[i].crypto_type = "Rsa"}
                         IN  /\ Cardinality(fs) = 1
                             /\ \A i \in fs :
                                    /\ RsaGradeOk(vs[i])
                                    /\ vs[i].key_size =
                                           IF IsSome(cap) THEN Some(from_str(Unwrap(cap)))
                                           ELSE None

\* C5: an RSA finding of a 1024-bit key was graded Critical / 100.
C5_Witness ==
    /\ pc = "returned"
    /\ outcome.ok
    /\ \E i \in 1..Len(outcome.value.vulnerabilities) :
           LET f == outcome.value.vulnerabilities[i]
           IN  /\ f.crypto_type = "Rsa"
               /\ f.key_size = Some(1024)
               /\ f.severity = "Critical"
               /\ f.risk_score = 100

\* the sum of the risk scores of the first n findings
RECURSIVE ScoreSum(_, _)
ScoreSum(vs, n) == IF n = 0 THEN 0 ELSE ScoreSum(vs, n - 1) + vs[n].risk_score

\* C6: the aggregate risk_score of an analyze result is the floor of the mean
\* of the findings' risk scores, 0 without findings; it is 0 if and only if
\* there is no finding, and it lies in 0..100.
C6_AggregateIsFloorMean ==
    (pc = "returned" /\ outcome.ok) =>
        LET vs == outcome.value.vulnerabilities
            n  == Len(vs)
            rs == outcome.value.risk_score
        IN  /\ n = 0 => rs = 0
            /\ n > 0 => /\ n * rs <= ScoreSum(vs, n)
                        /\ ScoreSum(vs, n) < n * (rs + 1)
            /\ rs = 0 <=> n = 0
            /\ rs \in 0..100

\* C6: a result whose mean is not a whole number (the division truncated).
C6_Witness ==
    /\ pc = "returned"
    /\ outcome.ok
    /\ Len(outcome.value.vulnerabilities) >= 2
    /\ ScoreSum(outcome.value.vulnerabilities, Len(outcome.value.vulnerabilities))
           % Len(outcome.value.vulnerabilities) # 0

CountOf(vs, sev) == Cardinality({i \in 1..Len(vs) : vs[i].severity = sev})

CountsConsistent(r) ==
    /\ r.stats.critical_count + r.stats.high_count + r.stats.medium_count
           + r.stats.low_count = r.stats.total_vulnerabilities
    /\ r.stats.total_vulnerabilities = Len(r.vulnerabilities)
    /\ r.stats.critical_count = CountOf(r.vulnerabilities, "Critical")
    /\ r.stats.high_count = CountOf(r.vulnerabilities, "High")
    /\ r.stats.medium_count = CountOf(r.vulnerabilities, "Medium")
    /\ r.stats.low_count = CountOf(r.vulnerabilities, "Low")

\* C7: after any sequence of add_vulnerability, calculate_risk_score and
\* generate_recommendations calls on a new AuditResult, the four severity
\* counts add up to total_vulnerabilities, which is the length of the findings
\* list, each count is the number of findings of its severity, and
\* lines_scanned never changes.
C7_CountsConsistent ==
    /\ [](CountsConsistent(result))
    /\ [][result'.stats.lines_scanned = result.stats.lines_scanned]_vars

\* C7: three findings of different severities were added, with the score
\* calculated and the recommendations generated in between.
C7_Witness ==
    /\ pc = "building"
    /\ Len(result.vulnerabilities) = 3
    /\ result.stats.critical_count = 1
    /\ result.stats.medium_count = 1
    /\ result.stats.low_count = 1
    /\ result.risk_score > 0
    /\ Len(result.recommendations) > 1

\* the order of the rules within one line
RuleOrder ==
    <<"Rsa", "Ecdsa", "Ecdh", "Dsa", "DiffieHellman", "Sha1", "Md5", "Des",
      "TripleDes", "Rc4">>

RuleIndex(t) == CHOOSE i \in 1..Len(RuleOrder) : RuleOrder[i] = t

\* C8: the findings of an analyze result are in scan order: the line numbers
\* lie in 1..lines_scanned and do not decrease along the list, and findings of
\* one line come in the rule order RSA, ECDSA, ECDH, DSA, Diffie-Hellman,
\* SHA-1, MD5, DES, 3DES, RC4.
C8_ScanOrder ==
    (pc = "returned" /\ outcome.ok) =>
        LET vs == outcome.value.vulnerabilities
        IN  \A i \in 1..Len(vs) :
                /\ vs[i].line >= 1
                /\ vs[i].line <= outcome.value.stats.lines_scanned
                /\ i < Len(vs) =>
                       /\ vs[i].line <= vs[i + 1].line
                       /\ vs[i].line = vs[i + 1].line =>
                              RuleIndex(vs[i].crypto_type)
                                  < RuleIndex(vs[i + 1].crypto_type)

\* C8: a result with findings on two lines, one of them with all ten rules.
C8_Witness ==
    /\ pc = "returned"
    /\ outcome.ok
    /\ LET vs == outcome.value.vulnerabilities
       IN  /\ Len(vs) >= 12
           /\ \E i \in 1..(Len(vs) - 1) : vs[i].line < vs[i + 1].line
           /\ \E i \in 1..(Len(vs) - 1) :
                  vs[i].line = vs[i + 1].line /\ vs[i].crypto_type = "Md5"

\* the key of a classification level in the dataset
LevelKey(c) ==
    CASE c = "Unclassified" -> "UNCLASSIFIED"
      [] c = "ProtectedA" -> "PROTECTED_A"
      [] c = "ProtectedB" -> "PROTECTED_B"
      [] c = "ProtectedC" -> "PROTECTED_C"

\* C9: validate_key_size is true for RSA if and only if the key size is at
\* least the classification's minimum RSA key size, true for ECDSA and ECDH if
\* and only if it is at least the minimum ECC key size, and true for every
\* other primitive.
C9_ValidateKeySize ==
    pc = "validated" =>
        LET req == db.classification_requirements[LevelKey(classification)]
        IN  answer =
                IF crypto_type = "Rsa" THEN key_size >= req.minimum_rsa_key_size
                ELSE IF crypto_type \in {"Ecdsa", "Ecdh"}
                     THEN key_size >= req.minimum_ecc_key_size
                ELSE TRUE

\* C9: an RSA key of exactly the minimum size of its level was accepted.
C9_Witness ==
    /\ pc = "validated"
    /\ crypto_type = "Rsa"
    /\ key_size =
           db.classification_requirements[LevelKey(classification)].minimum_rsa_key_size
    /\ answer = TRUE

\* C10: the status lookup is total over the ten primitives; a primitive whose
\* row is absent is UnderReview, Approved only comes from a row that says
\* approved; is_cccs_approved, is_cccs_prohibited and is_cccs_deprecated are the
\* projections of that status, so at most one of them holds.
C10_StatusLookupTotal ==
    pc = "status" =>
        LET name    == algorithm_name(crypto_type)
            present == name \in DOMAIN db.algorithms
        IN  /\ answer.status \in CCCSApprovalStatuses
            /\ ~present => answer.status = "UnderReview"
            /\ answer.status = "Approved" <=>
                   (present /\ db.algorithms[name].cccs_status = "approved")
            /\ answer.status = "Prohibited" <=>
                   (present /\ db.algorithms[name].cccs_status = "prohibited")
            /\ answer.status = "Deprecated" <=>
                   (present /\ db.algorithms[name].cccs_status = "deprecated")
            /\ answer.approved = (answer.status = "Approved")
            /\ answer.prohibited = (answer.status = "Prohibited")
            /\ answer.deprecated = (answer.status = "Deprecated")
            /\ Cardinality({x \in {"a", "p", "d"} :
                   \/ x = "a" /\ answer.approved
                   \/ x = "p" /\ answer.prohibited
                   \/ x = "d" /\ answer.deprecated}) <= 1
            /\ \A t \in Range(CryptoTypes) :
                   algorithm_name(t) = name => t = crypto_type

\* C10: the status of a primitive without a row was asked and is UnderReview.
C10_Witness ==
    /\ pc = "status"
    /\ algorithm_name(crypto_type) \notin DOMAIN db.algorithms
    /\ answer.status = "UnderReview"
    /\ ~answer.approved

----------------------------------------------------------------------------
(* compliance.rs: the NIST 800-53 SC-13 report of an AuditResult.          *)
(* Identifiers and timestamps (Uuid::new_v4, Utc::now) are fresh values    *)
(* that no rule reads; the report is modelled without them.                *)

\* impl fmt::Display for CryptoType
CryptoType_to_string(t) ==
    CASE t = "Rsa" -> "RSA"
      [] t = "Ecdsa" -> "ECDSA"
      [] t = "Ecdh" -> "ECDH"
      [] t = "Dsa" -> "DSA"
      [] t = "DiffieHellman" -> "Diffie-Hellman"
      [] t = "Sha1" -> "SHA-1"
      [] t = "Md5" -> "MD5"
      [] t = "Des" -> "DES"
      [] t = "TripleDes" -> "3DES"
      [] t = "Rc4" -> "RC4"

\* the derived Ord of Severity: Low < Medium < High < Critical
SeverityOrd(s) ==
    CASE s = "Low" -> 0
      [] s = "Medium" -> 1
      [] s = "High" -> 2
      [] s = "Critical" -> 3

\* vulns.iter().map(|v| v.severity).max().unwrap_or(Severity::Low)
highest_severity(vulns) ==
    IF Len(vulns) = 0 THEN "Low"
    ELSE LET i == CHOOSE i \in 1..Len(vulns) :
                      \A j \in 1..Len(vulns) :
                          SeverityOrd(vulns[j].severity) <= SeverityOrd(vulns[i].severity)
         IN  vulns[i].severity

\* if !list.contains(&x) { list.push(x) }
push_unique(list, x) ==
    IF \E i \in 1..Len(list) : list[i] = x THEN list ELSE Append(list, x)

\* a u32 of any size, in two halves of 16 bits
\* the u32 subtraction a - b: it panics on overflow in a build with overflow
\* checks (debug) and wraps modulo 2^32 in a build without (release)
u32_sub(a, b, overflow_checks) ==
    IF a >= b THEN U32(a - b)
    ELSE IF overflow_checks THEN Panic("attempt to subtract with overflow")
    ELSE [hi |-> 65535 - ((b - a - 1) \div 65536),
          lo |-> 65535 - ((b - a - 1) % 65536)]

is_quantum_vulnerable(t) ==
    t \in {"Rsa", "Ecdsa", "Ecdh", "Dsa", "DiffieHellman"}

\* assess_implementation with the High threshold one too low (>= 5 for > 5)
assess_implementation_ge5(audit_result) ==
    LET total_vulns    == audit_result.stats.total_vulnerabilities
        critical_count == audit_result.stats.critical_count
        high_count     == audit_result.stats.high_count
    IN  IF total_vulns = 0 THEN <<"Implemented", "Satisfied">>
        ELSE IF critical_count > 0 \/ high_count >= 5
             THEN <<"PartiallyImplemented", "NotSatisfied">>
        ELSE IF high_count > 0 THEN <<"PartiallyImplemented", "Other">>
        ELSE <<"Implemented", "Other">>

\* assess_implementation
assess_implementation(audit_result) ==
    LET total_vulns    == audit_result.stats.total_vulnerabilities
        critical_count == audit_result.stats.critical_count
        high_count     == audit_result.stats.high_count
    IN  IF total_vulns = 0 THEN <<"Implemented", "Satisfied">>
        ELSE IF critical_count > 0 \/ high_count > 5
             THEN <<"PartiallyImplemented", "NotSatisfied">>
        ELSE IF high_count > 0 THEN <<"PartiallyImplemented", "Other">>
        ELSE <<"Implemented", "Other">>

\* format!("{} {}-bit", crypto_name, key_size)
key_info(crypto_name, ks) == <<crypto_name, " ", ks, "-bit">>

\* the three lists of generate_summary after the first n findings
RECURSIVE SummaryLists(_, _)
SummaryLists(vulns, n) ==
    IF n = 0
    THEN [quantum_vulnerable |-> <<>>, deprecated |-> <<>>, weak_keys |-> <<>>]
    ELSE LET acc  == SummaryLists(vulns, n - 1)
             vuln == vulns[n]
             crypto_name == CryptoType_to_string(vuln.crypto_type)
             a1 == IF vuln.crypto_type \in {"Rsa", "Ecdsa", "Ecdh", "Dsa", "DiffieHellman"}
                   THEN [acc EXCEPT !.quantum_vulnerable = push_unique(@, crypto_name)]
                   ELSE [acc EXCEPT !.deprecated = push_unique(@, crypto_name)]
         IN  IF IsSome(vuln.key_size) /\ Unwrap(vuln.key_size) < 2048
             THEN [a1 EXCEPT !.weak_keys =
                       push_unique(@, key_info(crypto_name, Unwrap(vuln.key_size)))]
             ELSE a1

\* generate_summary
generate_summary(audit_result, overflow_checks) ==
    LET lists == SummaryLists(audit_result.vulnerabilities,
                              Len(audit_result.vulnerabilities))
        compliance_score ==
            IF audit_result.risk_score = 0 THEN U32(100)
            ELSE u32_sub(100, audit_result.risk_score, overflow_checks)
    IN  IF "panicked" \in DOMAIN compliance_score THEN compliance_score
        ELSE [files_scanned |-> 1,
              lines_scanned |-> audit_result.stats.lines_scanned,
              total_vulnerabilities |-> audit_result.stats.total_vulnerabilities,
              quantum_vulnerable_algorithms |-> lists.quantum_vulnerable,
              deprecated_algorithms |-> lists.deprecated,
              weak_key_sizes |-> lists.weak_keys,
              compliance_score |-> compliance_score,
              risk_score |-> audit_result.risk_score]

\* the grouping with insert in place of entry().or_default().push(): a
\* group keeps only the last finding of its primitive
vuln_group_overwrite(audit_result, key) ==
    LET all == SelectSeq(audit_result.vulnerabilities,
                         LAMBDA v : CryptoType_to_string(v.crypto_type) = key)
    IN  SubSeq(all, Len(all), Len(all))

\* the groups of generate_findings: the findings of one key, in list order
vuln_group(audit_result, key) ==
    SelectSeq(audit_result.vulnerabilities,
              LAMBDA v : CryptoType_to_string(v.crypto_type) = key)

\* the keys of the HashMap vuln_groups
group_keys(audit_result) ==
    {CryptoType_to_string(audit_result.vulnerabilities[i].crypto_type) :
        i \in 1..Len(audit_result.vulnerabilities)}

\* the orders in which the iteration of the HashMap may give its keys
IterationOrders(keys) ==
    {o \in [1..Cardinality(keys) -> keys] :
        \A i, j \in 1..Cardinality(keys) : o[i] = o[j] => i = j}

\* the body of the loop of generate_findings for one group
ControlFinding(group_key, vulns, file_path) ==
    LET first_vuln == vulns[1]
        highest == highest_severity(vulns)
        status  == IF SeverityOrd(highest) >= SeverityOrd("High")
                   THEN <<"NotApplicable", "NotSatisfied">>
                   ELSE <<"PartiallyImplemented", "Other">>
        path    == unwrap_or(file_path, "source")
    IN  [control_id |-> "sc-13",
         implementation_status |-> status[1],
         assessment_status |-> status[2],
         description |->
             <<"Found ", Len(vulns), " instance(s) of ", group_key,
               IF is_quantum_vulnerable(first_vuln.crypto_type)
               THEN "quantum-vulnerable" ELSE "cryptographically deprecated",
               highest>>,
         related_vulnerabilities |->
             [i \in 1..Len(vulns) |-> <<path, ":", vulns[i].line, ":", vulns[i].column>>],
         evidence |->
             [i \in 1..Len(vulns) |->
                 [evidence_id |-> i - 1,
                  evidence_type |-> "StaticScan",
                  source_location |->
                      Some([file_path |-> path,
                            line |-> vulns[i].line,
                            column |-> vulns[i].column,
                            snippet |-> vulns[i].context]),
                  data |-> [crypto_type |-> group_key,
                            severity |-> vulns[i].severity,
                            risk_score |-> vulns[i].risk_score,
                            key_size |-> vulns[i].key_size,
                            message |-> vulns[i].message]]],
         remediation |-> first_vuln.recommendation,
         risk_level |-> highest]

\* generate_findings; order is the order in which the HashMap gives the groups
generate_findings(audit_result, file_path, order) ==
    [k \in 1..Len(order) |->
        ControlFinding(order[k], vuln_group(audit_result, order[k]), file_path)]

\* generate_compliance_recommendations
generate_compliance_recommendations(audit_result) ==
    <<"SC-13 Control Objective">>
    \o (IF audit_result.stats.critical_count > 0 THEN <<"CRITICAL">> ELSE <<>>)
    \o (IF audit_result.stats.high_count > 0
        THEN <<"HIGH PRIORITY", "Recommended PQC Algorithms">> ELSE <<>>)
    \o <<"Implement crypto-agility", "Maintain a cryptographic inventory", "Reference">>

\* generate_sc13_report
generate_sc13_report(audit_result, file_path, order, overflow_checks) ==
    LET status  == assess_implementation(audit_result)
        summary == generate_summary(audit_result, overflow_checks)
    IN  IF "panicked" \in DOMAIN summary THEN summary
        ELSE [control_assessment |->
                  [control_id |-> "sc-13",
                   implementation_status |-> status[1],
                   assessment_status |-> status[2]],
              summary |-> summary,
              findings |-> generate_findings(audit_result, file_path, order),
              recommendations |-> generate_compliance_recommendations(audit_result)]

----------------------------------------------------------------------------
(* algorithm_database.rs: the projections the Canadian report reads.       *)

\* is_cmvp_required
is_cmvp_required(c) ==
    LET req == get_classification_requirements(c)
    IN  IF IsSome(req) THEN Unwrap(req).cmvp_required ELSE FALSE

\* get_itsp_reference
get_itsp_reference(t) ==
    LET v == get_algorithm_validation(algorithm_name(t))
    IN  IF IsSome(v) THEN Unwrap(v).itsp_reference ELSE "ITSP.40.111"

\* get_approval_conditions
get_approval_conditions(t) ==
    IF t \notin {"Rsa", "Ecdsa", "Ecdh", "DiffieHellman"} THEN <<>>
    ELSE LET v == get_algorithm_validation(algorithm_name(t))
         IN  IF IsSome(v) THEN Unwrap(v).conditions ELSE <<>>

\* the two filters of get_approved_algorithms on one row of the dataset
approved_for(entry, c) ==
    /\ entry.cccs_status = "approved"
    /\ LET reqs == get_classification_requirements(c)
       IN  IF IsSome(reqs)
           THEN IF entry.algorithm = "AES"
                THEN \E i \in 1..Len(entry.approved_key_sizes) :
                         entry.approved_key_sizes[i] >= Unwrap(reqs).minimum_aes_key_size
                ELSE IF entry.algorithm = "RSA"
                THEN \E i \in 1..Len(entry.approved_key_sizes) :
                         entry.approved_key_sizes[i] >= Unwrap(reqs).minimum_rsa_key_size
                ELSE TRUE
           ELSE FALSE

\* get_approved_algorithms; rows is the order in which the HashMap of the
\* dataset gives its rows
get_approved_algorithms(c, rows) ==
    SelectSeq(rows, LAMBDA name : approved_for(db.algorithms[name], c))

----------------------------------------------------------------------------
(* canadian_compliance.rs: the ITSG-33 SC-13 report of an AuditResult.     *)

\* u32::saturating_sub
saturating_sub(a, b) == IF a >= b THEN a - b ELSE 0

\* assess_canadian_implementation taking a finding without key size for a
\* key-size violation
assess_canadian_implementation_unknown_fails(audit_result, c) ==
    LET vulns == audit_result.vulnerabilities
        total_vulns == audit_result.stats.total_vulnerabilities
        has_prohibited ==
            \E i \in 1..Len(vulns) : is_cccs_prohibited(vulns[i].crypto_type)
        has_deprecated ==
            \E i \in 1..Len(vulns) : is_cccs_deprecated(vulns[i].crypto_type)
        has_key_size_violations ==
            \E i \in 1..Len(vulns) :
                IF IsSome(vulns[i].key_size)
                THEN ~validate_key_size(vulns[i].crypto_type,
                                        Unwrap(vulns[i].key_size), c)
                ELSE TRUE
    IN  IF total_vulns = 0 THEN <<"Implemented", "Satisfied">>
        ELSE IF has_prohibited THEN <<"PartiallyImplemented", "NotSatisfied">>
        ELSE IF has_deprecated \/ has_key_size_violations
             THEN <<"PartiallyImplemented", "Other">>
        ELSE <<"Implemented", "Other">>

\* assess_canadian_implementation
assess_canadian_implementation(audit_result, c) ==
    LET vulns == audit_result.vulnerabilities
        total_vulns == audit_result.stats.total_vulnerabilities
        has_prohibited ==
            \E i \in 1..Len(vulns) : is_cccs_prohibited(vulns[i].crypto_type)
        has_deprecated ==
            \E i \in 1..Len(vulns) : is_cccs_deprecated(vulns[i].crypto_type)
        has_key_size_violations ==
            \E i \in 1..Len(vulns) :
                IF IsSome(vulns[i].key_size)
                THEN ~validate_key_size(vulns[i].crypto_type,
                                        Unwrap(vulns[i].key_size), c)
                ELSE FALSE
    IN  IF total_vulns = 0 THEN <<"Implemented", "Satisfied">>
        ELSE IF has_prohibited THEN <<"PartiallyImplemented", "NotSatisfied">>
        ELSE IF has_deprecated \/ has_key_size_violations
             THEN <<"PartiallyImplemented", "Other">>
        ELSE <<"Implemented", "Other">>

\* the five lists of generate_canadian_summary after the first n findings
RECURSIVE CanadianLists(_, _, _)
CanadianLists(vulns, n, c) ==
    IF n = 0
    THEN [quantum_vulnerable |-> <<>>, deprecated |-> <<>>, weak_keys |-> <<>>,
          cccs_deprecated_list |-> <<>>, cccs_prohibited |-> <<>>]
    ELSE LET acc  == CanadianLists(vulns, n - 1, c)
             vuln == vulns[n]
             crypto_name == CryptoType_to_string(vuln.crypto_type)
             a1 == IF vuln.crypto_type \in {"Rsa", "Ecdsa", "Ecdh", "Dsa", "DiffieHellman"}
                   THEN [acc EXCEPT !.quantum_vulnerable = push_unique(@, crypto_name)]
                   ELSE [acc EXCEPT !.deprecated = push_unique(@, crypto_name)]
             a2 == IF /\ is_cccs_prohibited(vuln.crypto_type)
                      /\ ~\E i \in 1..Len(a1.cccs_prohibited) :
                              a1.cccs_prohibited[i] = crypto_name
                   THEN [a1 EXCEPT !.cccs_prohibited = Append(@, crypto_name)]
                   ELSE IF /\ is_cccs_deprecated(vuln.crypto_type)
                           /\ ~\E i \in 1..Len(a1.cccs_deprecated_list) :
                                   a1.cccs_deprecated_list[i] = crypto_name
                   THEN [a1 EXCEPT !.cccs_deprecated_list = Append(@, crypto_name)]
                   ELSE a1
         IN  IF /\ IsSome(vuln.key_size)
                /\ ~validate_key_size(vuln.crypto_type, Unwrap(vuln.key_size), c)
             THEN [a2 EXCEPT !.weak_keys =
                       push_unique(@, key_info(crypto_name, Unwrap(vuln.key_size)))]
             ELSE a2

\* calculate_canadian_compliance_score counting every quantum-vulnerable
\* finding instead of every distinct primitive
calculate_canadian_compliance_score_per_finding(audit_result, prohibited, deprecated, weak_keys) ==
    IF audit_result.stats.total_vulnerabilities = 0 THEN 100
    ELSE LET s1 == saturating_sub(100, Len(prohibited) * 40)
             s2 == saturating_sub(s1, Len(deprecated) * 20)
             s3 == saturating_sub(s2, Len(weak_keys) * 15)
             quantum_count ==
                 Cardinality({j \in 1..Len(audit_result.vulnerabilities) :
                     audit_result.vulnerabilities[j].crypto_type
                         \in {"Rsa", "Ecdsa", "Ecdh", "Dsa", "DiffieHellman"}})
         IN  saturating_sub(s3, quantum_count * 10)

\* calculate_canadian_compliance_score
calculate_canadian_compliance_score(audit_result, prohibited, deprecated, weak_keys) ==
    IF audit_result.stats.total_vulnerabilities = 0 THEN 100
    ELSE LET s1 == saturating_sub(100, Len(prohibited) * 40)
             s2 == saturating_sub(s1, Len(deprecated) * 20)
             s3 == saturating_sub(s2, Len(weak_keys) * 15)
             quantum_count ==
                 Cardinality({CryptoType_to_string(audit_result.vulnerabilities[i].crypto_type) :
                     i \in {j \in 1..Len(audit_result.vulnerabilities) :
                               audit_result.vulnerabilities[j].crypto_type
                                   \in {"Rsa", "Ecdsa", "Ecdh", "Dsa", "DiffieHellman"}}})
         IN  saturating_sub(s3, quantum_count * 10)

\* generate_canadian_summary
generate_canadian_summary(audit_result, c, rows) ==
    LET vulns == audit_result.vulnerabilities
        lists == CanadianLists(vulns, Len(vulns), c)
        cmvp_required_count ==
            Cardinality({i \in 1..Len(vulns) :
                get_cccs_status(vulns[i].crypto_type)
                    \in {"Approved", "ConditionallyApproved"}})
    IN  [files_scanned |-> 1,
         lines_scanned |-> audit_result.stats.lines_scanned,
         total_vulnerabilities |-> audit_result.stats.total_vulnerabilities,
         quantum_vulnerable_algorithms |-> lists.quantum_vulnerable,
         deprecated_algorithms |-> lists.deprecated,
         weak_key_sizes |-> lists.weak_keys,
         compliance_score |->
             calculate_canadian_compliance_score(audit_result, lists.cccs_prohibited,
                 lists.cccs_deprecated_list, lists.weak_keys),
         risk_score |-> audit_result.risk_score,
         cccs_approved_algorithms |-> get_approved_algorithms(c, rows),
         cccs_deprecated_algorithms |-> lists.cccs_deprecated_list,
         cccs_prohibited_algorithms |-> lists.cccs_prohibited,
         cmvp_validated_count |-> 0,
         cmvp_required_count |-> cmvp_required_count,
         itsp_40_111_compliant |->
             (Len(lists.cccs_prohibited) = 0 /\ Len(lists.weak_keys) = 0),
         itsp_40_062_compliant |-> TRUE,
         security_classification |-> c,
         classification_compliant |-> (Len(lists.weak_keys) = 0)]

\* the levels of determine_applicable_classifications, in its order
ClassificationOrder == <<"Unclassified", "ProtectedA", "ProtectedB", "ProtectedC">>

\* determine_applicable_classifications
determine_applicable_classifications(t, ks, cccs_status) ==
    IF cccs_status \in {"Prohibited", "Deprecated"} THEN <<>>
    ELSE SelectSeq(ClassificationOrder,
             LAMBDA c :
                 IF IsSome(ks) THEN validate_key_size(t, Unwrap(ks), c)
                 ELSE cccs_status \in {"Approved", "ConditionallyApproved"})

\* generate_canadian_finding_description
generate_canadian_finding_description(group_key, count, cccs_status, c, ks) ==
    <<"Found ", count, " instance(s) of ", group_key, "CCCS Status: ", cccs_status>>
    \o (CASE cccs_status = "Prohibited" -> <<"PROHIBITED">>
          [] cccs_status = "Deprecated" -> <<"DEPRECATED">>
          [] cccs_status = "ConditionallyApproved" ->
                 <<"CONDITIONALLY APPROVED", "Plan post-quantum migration. ">>
          [] cccs_status = "Approved" -> <<"APPROVED">>
          [] cccs_status = "UnderReview" -> <<"UNDER REVIEW">>)
    \o (IF IsSome(ks) THEN <<"Key size: ", Unwrap(ks), c>> ELSE <<>>)

\* generate_canadian_remediation
generate_canadian_remediation(t, cccs_status) ==
    CASE cccs_status = "Prohibited" ->
             <<"IMMEDIATE ACTION REQUIRED: Replace ", CryptoType_to_string(t)>>
      [] cccs_status = "Deprecated" ->
             <<"Migrate from ", CryptoType_to_string(t)>>
      [] cccs_status = "ConditionallyApproved" ->
             <<CryptoType_to_string(t), " is conditionally approved. Conditions: ",
               get_approval_conditions(t)>>
      [] OTHER -> <<"Ensure ", CryptoType_to_string(t)>>

\* the body of the loop of generate_canadian_findings for one group
CanadianFinding(group_key, vulns, c, file_path) ==
    LET first_vuln == vulns[1]
        highest == highest_severity(vulns)
        t       == first_vuln.crypto_type
        cccs_approval_status == get_cccs_status(t)
        status  == CASE cccs_approval_status = "Prohibited" ->
                            <<"NotApplicable", "NotSatisfied">>
                     [] cccs_approval_status = "Deprecated" ->
                            <<"PartiallyImplemented", "Other">>
                     [] OTHER ->
                            IF SeverityOrd(highest) >= SeverityOrd("High")
                            THEN <<"PartiallyImplemented", "Other">>
                            ELSE <<"Implemented", "Other">>
        path    == unwrap_or(file_path, "source")
    IN  [control_id |-> "ITSG-33 SC-13",
         implementation_status |-> status[1],
         assessment_status |-> status[2],
         description |->
             generate_canadian_finding_description(group_key, Len(vulns),
                 cccs_approval_status, c, vulns[1].key_size),
         related_vulnerabilities |->
             [i \in 1..Len(vulns) |-> <<path, ":", vulns[i].line, ":", vulns[i].column>>],
         evidence |->
             [i \in 1..Len(vulns) |->
                 [evidence_id |-> i - 1,
                  evidence_type |-> "StaticScan",
                  source_location |->
                      Some([file_path |-> path,
                            line |-> vulns[i].line,
                            column |-> vulns[i].column,
                            snippet |-> vulns[i].context]),
                  data |-> [crypto_type |-> group_key,
                            cccs_status |-> cccs_approval_status,
                            severity |-> vulns[i].severity,
                            risk_score |-> vulns[i].risk_score,
                            key_size |-> vulns[i].key_size,
                            classification |-> c]]],
         remediation |-> generate_canadian_remediation(t, cccs_approval_status),
         risk_level |-> highest,
         cccs_approval_status |-> cccs_approval_status,
         itsp_references |-> <<get_itsp_reference(t)>>,
         cmvp_validation |->
             IF cccs_approval_status \in {"Approved", "ConditionallyApproved"}
             THEN Some([algorithm_used |-> group_key,
                        requires_cmvp |-> is_cmvp_required(c),
                        compliant |-> FALSE])
             ELSE None,
         applicable_classifications |->
             determine_applicable_classifications(t, first_vuln.key_size,
                                                  cccs_approval_status)]

\* generate_canadian_findings; order is the order in which the HashMap gives
\* the groups
generate_canadian_findings(audit_result, c, file_path, order) ==
    [k \in 1..Len(order) |->
        CanadianFinding(order[k], vuln_group(audit_result, order[k]), c, file_path)]

\* generate_cmvp_validations
generate_cmvp_validations(audit_result) ==
    LET vulns == audit_result.vulnerabilities
        listed == SelectSeq(vulns,
                      LAMBDA v : get_cccs_status(v.crypto_type)
                                     \in {"Approved", "ConditionallyApproved"})
    IN  [i \in 1..Len(listed) |->
            [algorithm_used |-> CryptoType_to_string(listed[i].crypto_type),
             requires_cmvp |-> TRUE,
             compliant |-> FALSE]]

\* generate_canadian_recommendations
generate_canadian_recommendations(audit_result, c) ==
    LET vulns == audit_result.vulnerabilities
        has_prohibited ==
            \E i \in 1..Len(vulns) : is_cccs_prohibited(vulns[i].crypto_type)
        has_deprecated ==
            \E i \in 1..Len(vulns) : is_cccs_deprecated(vulns[i].crypto_type)
    IN  <<<<"ITSG-33 SC-13 Control Objective", c>>, <<"Use CMVP-validated modules">>>>
        \o (IF has_prohibited THEN <<<<"CRITICAL">>>> ELSE <<>>)
        \o (IF has_deprecated THEN <<<<"HIGH PRIORITY">>>> ELSE <<>>)
        \o (IF audit_result.stats.high_count > 0
            THEN <<<<"Quantum-vulnerable algorithms detected">>,
                   <<"Recommended PQC Algorithms">>>>
            ELSE <<>>)
        \o <<<<"Implement crypto-agility">>, <<"Maintain cryptographic inventory">>,
             <<"Reference">>>>

\* generate_itsg33_report
generate_itsg33_report(audit_result, c, file_path, order, rows) ==
    LET status == assess_canadian_implementation(audit_result, c)
    IN  [control_assessment |->
             [control_id |-> "ITSG-33 SC-13",
              implementation_status |-> status[1],
              assessment_status |-> status[2],
              security_classification |-> c],
         summary |-> generate_canadian_summary(audit_result, c, rows),
         findings |-> generate_canadian_findings(audit_result, c, file_path, order),
         protocol_compliance |-> <<>>,
         cmvp_validations |-> generate_cmvp_validations(audit_result),
         recommendations |-> generate_canadian_recommendations(audit_result, c)]

----------------------------------------------------------------------------
(* The callers of the report generators: one report of an AuditResult      *)
(* drawn at the start.                                                      *)

MaxRepeat == 6

\* findings as analyze reports them
ScannedVulnerabilities ==
    {Unwrap(detect_rsa(<<"R", "S", "A", ".", "g", "e", "n", "e", "r", "a", "t", "e", "(", "1", "0", "2", "4", ")">>, 1)),
     Unwrap(detect_rsa(<<"r", "s", "a", " ", "2", "0", "4", "8">>, 2)),
     Unwrap(detect_rsa(<<"r", "s", "a", " ", "3", "0", "7", "2">>, 3)),
     Unwrap(detect_rsa(<<"r", "s", "a", " ", "4", "0", "9", "6">>, 4)),
     Unwrap(detect_rsa(<<"R", "S", "A">>, 5)),
     Unwrap(detect_md5(<<"m", "d", "5">>, 6)),
     Unwrap(detect_triple_des(<<"3", "D", "E", "S">>, 7)),
     Unwrap(detect_dsa(<<"D", "S", "A", " ">>, 8))}

\* findings a caller builds by hand (all fields of Vulnerability are public)
HandBuiltVulnerabilities ==
    {Vulnerability("Ecdh", "Medium", 50, 9, 0, <<"e", "c", "d", "h", " ", "2", "5", "6">>, <<"m">>, "r", Some(256)),
     Vulnerability("Ecdsa", "Low", 10, 10, 0, <<"e", "c", "d", "s", "a", " ", "3", "8", "4">>, <<"m">>, "r", Some(384)),
     Vulnerability("DiffieHellman", "Medium", 40, 11, 2, <<"D", "H", "_">>, <<"m">>, "r", None),
     Vulnerability("Rsa", "Low", 5, 12, 0, <<"r", "s", "a", " ", "1", "0", "2", "4">>, <<"m">>, "r", Some(1024))}

ReportVulnerabilities == ScannedVulnerabilities \cup HandBuiltVulnerabilities

\* the finding repeated in the long lists: ECDSA, High
RepeatedVulnerability == Unwrap(detect_ecdsa(<<"e", "c", "d", "s", "a">>, 1))

Repeat(v, k) == [i \in 1..k |-> v]

\* lists of no, one or two findings
ShortLists ==
    {<<>>} \cup {<<v>> : v \in ReportVulnerabilities}
    \cup {<<v, w>> : v \in ReportVulnerabilities, w \in ReportVulnerabilities}

FindingLists ==
    {Repeat(RepeatedVulnerability, k) \o tail :
        k \in {0} \cup ((MaxRepeat - 1)..MaxRepeat), tail \in ShortLists}

\* AuditResult::new, add_vulnerability for each finding of the list
RECURSIVE AddAll(_, _)
AddAll(r, list) ==
    IF list = <<>> THEN r
    ELSE AddAll(add_vulnerability(r, Head(list)), Tail(list))

\* the result analyze would return with these findings
BuildResult(list) ==
    generate_recommendations(calculate_risk_score(AddAll(AuditResult_new("Rust", 50), list), TRUE))

\* risk scores a caller may write into the public field risk_score
HandSetRiskScores == {0, 1, 50, 99, 100, 101, 200, 65636, 2147483647}

HandSetResults ==
    {[BuildResult(list) EXCEPT !.risk_score = rs] :
        list \in {l \in ShortLists : Len(l) <= 1}, rs \in HandSetRiskScores}

\* datasets for the reports: the base one, one with other minimums, one
\* without the ECDSA row, one with RSA prohibited, one with DSA approved,
\* and three with an approved row whose accepted key sizes are small
ReportDbs ==
    {BaseDb,
     [BaseDb EXCEPT !.classification_requirements = AltRequirements],
     [BaseDb EXCEPT !.algorithms = Restrict(@, DOMAIN @ \ {"ECDSA"})],
     [BaseDb EXCEPT !.algorithms["RSA"].cccs_status = "prohibited"],
     [BaseDb EXCEPT !.algorithms["DSA"].cccs_status = "approved"],
     [BaseDb EXCEPT !.algorithms["AES"].approved_key_sizes = <<128, 192>>],
     [BaseDb EXCEPT !.algorithms["RSA"].cccs_status = "approved",
                    !.algorithms["RSA"].approved_key_sizes = <<2048, 3072>>],
     [BaseDb EXCEPT !.algorithms["ECDSA"].cccs_status = "approved",
                    !.algorithms["ECDSA"].approved_key_sizes = <<256>>]}

\* two of the orders in which the HashMap of the dataset may give its rows
RowOrders(d) ==
    LET names == <<"3DES", "AES", "DES", "DH", "DSA", "ECDH", "ECDSA", "MD5",
                   "RC4", "RSA", "SHA-1", "SHA-256">>
        back  == [i \in 1..Len(names) |-> names[Len(names) + 1 - i]]
    IN  {SelectSeq(o, LAMBDA n : n \in DOMAIN d.algorithms) : o \in {names, back}}

InitReport ==
    /\ \/ /\ result \in {BuildResult(list) : list \in FindingLists}
          /\ classification \in SecurityClassifications
          /\ db = BaseDb
       \/ /\ result \in {BuildResult(list) : list \in ShortLists}
          /\ classification \in {"ProtectedA", "ProtectedC"}
          /\ db \in ReportDbs
       \/ /\ result \in HandSetResults
          /\ classification = "ProtectedA"
          /\ db = BaseDb
    /\ answer = Idle
    /\ source = Idle
    /\ language = Idle
    /\ outcome = NoOutcome
    /\ crypto_type = Idle
    /\ key_size = Idle
    /\ pc = "call"
    /\ cell = Idle
    /\ threads = Idle
    /\ walk = Idle
    /\ dataset = Idle

\* generate_sc13_report(&audit_result, file_path)
GenerateSc13Report ==
    /\ pc = "call"
    /\ \E file_path \in {None, Some("test.js")},
          order \in IterationOrders(group_keys(result)),
          overflow_checks \in BOOLEAN :
           answer' = generate_sc13_report(result, file_path, order, overflow_checks)
    /\ pc' = "sc13"
    /\ UNCHANGED <<source, language, outcome, result, crypto_type, key_size,
                   classification, db,
                   cell, threads, walk, dataset>>

\* generate_itsg33_report(&audit_result, classification, file_path)
GenerateItsg33Report ==
    /\ pc = "call"
    /\ \E file_path \in {None, Some("test.js")},
          order \in IterationOrders(group_keys(result)),
          rows \in RowOrders(db) :
           answer' = generate_itsg33_report(result, classification, file_path,
                                            order, rows)
    /\ pc' = "itsg33"
    /\ UNCHANGED <<source, language, outcome, result, crypto_type, key_size,
                   classification, db,
                   cell, threads, walk, dataset>>

\* assess_implementation(&audit_result), as the tests of compliance.rs call it
AssessImplementation ==
    /\ pc = "call"
    /\ answer' = assess_implementation(result)
    /\ pc' = "assessed"
    /\ UNCHANGED <<source, language, outcome, result, crypto_type, key_size,
                   classification, db,
                   cell, threads, walk, dataset>>

\* get_approved_algorithms(classification)
GetApprovedAlgorithms ==
    /\ pc = "call"
    /\ \E rows \in RowOrders(db) :
           answer' = get_approved_algorithms(classification, rows)
    /\ pc' = "approved"
    /\ UNCHANGED <<source, language, outcome, result, crypto_type, key_size,
                   classification, db,
                   cell, threads, walk, dataset>>

NextReport ==
    \/ GenerateSc13Report \/ GenerateItsg33Report \/ AssessImplementation
    \/ GetApprovedAlgorithms

SpecReport == InitReport /\ [][NextReport]_vars

----------------------------------------------------------------------------
(* Properties of the reports.                                              *)

\* C11: the compliance score of the SC-13 report is 100 minus the result's
\* risk_score, saturating at 0: the report never fails and never wraps,
\* whatever the risk_score (values above 100 in a hand-built AuditResult
\* included), and the score is 100 for a result without findings, whose
\* risk_score is 0.
C11_ScoreSaturatesAtZero ==
    pc = "sc13" =>
        /\ "panicked" \notin DOMAIN answer
        /\ answer.summary.compliance_score =
               U32(IF result.risk_score >= 100 THEN 0 ELSE 100 - result.risk_score)
        /\ (Len(result.vulnerabilities) = 0 /\ result.risk_score = 0) =>
               answer.summary.compliance_score = U32(100)

\* the distinct names of the findings whose primitive has the given status
NamesWithStatus(vs, status) ==
    {CryptoType_to_string(vs[i].crypto_type) :
        i \in {j \in 1..Len(vs) : get_cccs_status(vs[j].crypto_type) = status}}

\* the distinct (primitive, key size) pairs that fail the classification
FailingKeyPairs(vs, c) ==
    {<<vs[i].crypto_type, Unwrap(vs[i].key_size)>> :
        i \in {j \in 1..Len(vs) :
                  /\ IsSome(vs[j].key_size)
                  /\ ~validate_key_size(vs[j].crypto_type, Unwrap(vs[j].key_size), c)}}

\* the distinct quantum-vulnerable primitives present
QuantumPrimitives(vs) ==
    {vs[i].crypto_type : i \in 1..Len(vs)}
        \cap {"Rsa", "Ecdsa", "Ecdh", "Dsa", "DiffieHellman"}

PenaltyTotal(vs, c) ==
    40 * Cardinality(NamesWithStatus(vs, "Prohibited"))
    + 20 * Cardinality(NamesWithStatus(vs, "Deprecated"))
    + 15 * Cardinality(FailingKeyPairs(vs, c))
    + 10 * Cardinality(QuantumPrimitives(vs))

\* C12: the compliance score of the ITSG-33 report is 100 without findings;
\* otherwise 100 minus 40 per distinct prohibited name, 20 per distinct
\* deprecated name, 15 per distinct failing (primitive, key size) pair and 10
\* per distinct quantum-vulnerable primitive, never below 0; a single finding
\* of a prohibited hash scores 60.
C12_PenaltyScore ==
    pc = "itsg33" =>
        LET vs    == result.vulnerabilities
            score == answer.summary.compliance_score
        IN  /\ Len(vs) = 0 => score = 100
            /\ Len(vs) > 0 =>
                   score = IF PenaltyTotal(vs, classification) >= 100 THEN 0
                           ELSE 100 - PenaltyTotal(vs, classification)
            /\ (/\ Len(vs) = 1
                /\ vs[1].crypto_type \in {"Md5", "Sha1"}
                /\ get_cccs_status(vs[1].crypto_type) = "Prohibited") => score = 60

\* C12: a result with six findings of one quantum-vulnerable primitive and
\* two of one prohibited hash scores 100 - 40 - 10.
C12_Witness ==
    /\ pc = "itsg33"
    /\ Len(result.vulnerabilities) = 8
    /\ Cardinality(NamesWithStatus(result.vulnerabilities, "Prohibited")) = 1
    /\ Cardinality(QuantumPrimitives(result.vulnerabilities)) = 1
    /\ answer.summary.compliance_score = 50

\* the status rule set A gives to a list of findings
RuleSetA(vs) ==
    IF Len(vs) = 0 THEN <<"Implemented", "Satisfied">>
    ELSE IF CountOf(vs, "Critical") >= 1 \/ CountOf(vs, "High") > 5
         THEN <<"PartiallyImplemented", "NotSatisfied">>
    ELSE IF CountOf(vs, "High") >= 1 THEN <<"PartiallyImplemented", "Other">>
    ELSE <<"Implemented", "Other">>

\* C13: rule set A: no findings give Implemented / Satisfied; a Critical
\* finding or more than 5 High findings give PartiallyImplemented /
\* NotSatisfied; otherwise a High finding gives PartiallyImplemented / Other;
\* otherwise Implemented / Other.  No other implementation state is produced
\* for a file, alone or in the SC-13 report.
C13_RuleSetA ==
    /\ pc = "assessed" =>
           /\ answer = RuleSetA(result.vulnerabilities)
           /\ answer[1] \in {"Implemented", "PartiallyImplemented"}
    /\ (pc = "sc13" /\ "panicked" \notin DOMAIN answer) =>
           /\ answer.control_assessment.implementation_status =
                  RuleSetA(result.vulnerabilities)[1]
           /\ answer.control_assessment.assessment_status =
                  RuleSetA(result.vulnerabilities)[2]

\* C13: exactly five High findings and no Critical one: PartiallyImplemented /
\* Other.
C13_Witness ==
    /\ pc = "assessed"
    /\ CountOf(result.vulnerabilities, "High") = 5
    /\ CountOf(result.vulnerabilities, "Critical") = 0
    /\ answer = <<"PartiallyImplemented", "Other">>

\* the status rule set B gives to a list of findings at a classification
RuleSetB(vs, c) ==
    IF Len(vs) = 0 THEN <<"Implemented", "Satisfied">>
    ELSE IF \E i \in 1..Len(vs) : get_cccs_status(vs[i].crypto_type) = "Prohibited"
         THEN <<"PartiallyImplemented", "NotSatisfied">>
    ELSE IF \/ \E i \in 1..Len(vs) : get_cccs_status(vs[i].crypto_type) = "Deprecated"
            \/ \E i \in 1..Len(vs) :
                   /\ IsSome(vs[i].key_size)
                   /\ ~validate_key_size(vs[i].crypto_type, Unwrap(vs[i].key_size), c)
         THEN <<"PartiallyImplemented", "Other">>
    ELSE <<"Implemented", "Other">>

\* C14: rule set B: no findings give Implemented / Satisfied; a finding of a
\* Prohibited primitive gives PartiallyImplemented / NotSatisfied; otherwise a
\* finding of a Deprecated primitive or one whose key size fails
\* validate_key_size for the classification gives PartiallyImplemented /
\* Other; otherwise Implemented / Other.  A finding without key size is no
\* key-size violation.
C14_RuleSetB ==
    pc = "itsg33" =>
        /\ answer.control_assessment.implementation_status =
               RuleSetB(result.vulnerabilities, classification)[1]
        /\ answer.control_assessment.assessment_status =
               RuleSetB(result.vulnerabilities, classification)[2]

\* C14: findings without key size only, none prohibited or deprecated:
\* Implemented / Other.
C14_Witness ==
    /\ pc = "itsg33"
    /\ Len(result.vulnerabilities) > 0
    /\ \A i \in 1..Len(result.vulnerabilities) :
           /\ ~IsSome(result.vulnerabilities[i].key_size)
           /\ get_cccs_status(result.vulnerabilities[i].crypto_type)
                  \notin {"Prohibited", "Deprecated"}
    /\ answer.control_assessment.implementation_status = "Implemented"
    /\ answer.control_assessment.assessment_status = "Other"

\* the findings (assessed units) of the report a call produced, none when
\* the call panicked
Units ==
    IF pc \in {"sc13", "itsg33"} /\ "findings" \in DOMAIN answer
    THEN answer.findings ELSE <<>>

\* the primitive a unit was made for
UnitKey(unit) == unit.evidence[1].data.crypto_type

RECURSIVE EvidenceTotal(_, _)
EvidenceTotal(units, n) ==
    IF n = 0 THEN 0 ELSE EvidenceTotal(units, n - 1) + Len(units[n].evidence)

\* C15: in both report generators the grouping by primitive is a partition:
\* no group is empty, every evidence item of a unit is of the unit's
\* primitive, there is exactly one unit per distinct primitive present, a
\* unit holds as many evidence items as there are findings of its primitive,
\* and the evidence items of all units number the findings.
C15_GroupingIsPartition ==
    (pc \in {"sc13", "itsg33"} /\ "findings" \in DOMAIN answer) =>
        LET vs == result.vulnerabilities
            present == {CryptoType_to_string(vs[i].crypto_type) : i \in 1..Len(vs)}
        IN  /\ \A k \in 1..Len(Units) :
                   /\ Len(Units[k].evidence) > 0
                   /\ \A e \in 1..Len(Units[k].evidence) :
                          Units[k].evidence[e].data.crypto_type = UnitKey(Units[k])
                   /\ Len(Units[k].evidence) =
                          Cardinality({i \in 1..Len(vs) :
                              CryptoType_to_string(vs[i].crypto_type) = UnitKey(Units[k])})
                   /\ Len(Units[k].related_vulnerabilities) = Len(Units[k].evidence)
            /\ \A key \in present :
                   Cardinality({k \in 1..Len(Units) : UnitKey(Units[k]) = key}) = 1
            /\ Len(Units) = Cardinality(present)
            /\ EvidenceTotal(Units, Len(Units)) = Len(vs)

\* C15: a classification-aware report of two units, one of them with several
\* evidence items.
C15_Witness ==
    /\ pc = "itsg33"
    /\ Len(Units) = 2
    /\ \E k \in 1..2 : Len(Units[k].evidence) >= 2
    /\ EvidenceTotal(Units, 2) = Len(result.vulnerabilities)

\* the findings of the primitive a unit was made for
GroupOf(unit) ==
    SelectSeq(result.vulnerabilities,
              LAMBDA v : CryptoType_to_string(v.crypto_type) = UnitKey(unit))

\* the classification levels at which every key size observed in a group
\* passes validate_key_size
LevelsPassed(group) ==
    SelectSeq(ClassificationOrder,
              LAMBDA c : \A i \in 1..Len(group) :
                  IsSome(group[i].key_size) =>
                      validate_key_size(group[i].crypto_type,
                                        Unwrap(group[i].key_size), c))

\* C16: each unit of the classification-aware report carries the highest
\* severity of its group and the primitive's approval status; its acceptable
\* classification levels are none when the status is Prohibited or
\* Deprecated, and otherwise exactly the levels at which the observed key
\* size passes validate_key_size.
C16_UnitLevels ==
    pc = "itsg33" =>
        \A k \in 1..Len(Units) :
            LET group == GroupOf(Units[k])
                status == get_cccs_status(group[1].crypto_type)
            IN  /\ \A i \in 1..Len(group) :
                       SeverityOrd(group[i].severity) <= SeverityOrd(Units[k].risk_level)
                /\ \E i \in 1..Len(group) : group[i].severity = Units[k].risk_level
                /\ Units[k].cccs_approval_status = status
                /\ Units[k].applicable_classifications =
                       IF status \in {"Prohibited", "Deprecated"} THEN <<>>
                       ELSE LevelsPassed(group)

----------------------------------------------------------------------------
(* Concurrent callers.  ALGORITHM_DB and CMVP_DB are once_cell::sync::Lazy  *)
(* statics and each regex of audit.rs is a lazy_static value of its own:   *)
(* the first dereference of a static runs its initializer, a dereference   *)
(* during the initialization waits, and a later one reads the stored       *)
(* value.  A dereference of a complete cell changes nothing that another   *)
(* thread can see, so it is taken together with the step that follows it.  *)

\* the operations a thread performs one after the other
MaxOps == 2

\* the threads of the process
Threads == {"main", "worker"}

\* the lazy_static values of audit.rs, in the order of their declaration
PatternStatics ==
    <<"RSA_PATTERN", "RSA_KEYGEN", "RSA_KEY_SIZE", "ECDSA_PATTERN", "ECDH_PATTERN",
      "DSA_PATTERN", "DH_PATTERN", "SHA1_PATTERN", "MD5_PATTERN", "DES_PATTERN",
      "TRIPLE_DES_PATTERN", "RC4_PATTERN">>

Statics == {"ALGORITHM_DB", "CMVP_DB"} \cup Range(PatternStatics)

\* Lazy::new: nothing is stored, the initializer has not run
LazyNew == [state |-> "incomplete", inits |-> 0, stores |-> 0, value |-> Idle]

\* a dereference that finds the cell incomplete and claims the initialization
\* without marking the cell as being initialized
Lazy_begin_unguarded(c) == [c EXCEPT !.inits = @ + 1]

\* a dereference that finds the cell incomplete: it claims the
\* initialization and runs the initializer
Lazy_begin(c) == [c EXCEPT !.state = "running", !.inits = @ + 1]

\* the initializer has returned: its value is stored and the cell completed
Lazy_store(c, v) == [c EXCEPT !.state = "complete", !.stores = @ + 1, !.value = v]

\* include_str!("../data/cccs_algorithms.json")
EmbeddedDb == BaseDb

\* include_str!("../data/cmvp_certificates.json"): the row the tests of
\* algorithm_database.rs read (certificate 4282); its level and status are
\* those of an active Level 1 module
EmbeddedCmvp ==
    [certificates |->
        <<[certificate_number |-> "4282", vendor |-> "OpenSSL Software Foundation",
           validation_level |-> "Level1", algorithms |-> <<"AES">>, status |-> "active"]>>]

\* get_cmvp_certificate on the value of CMVP_DB
get_cmvp_certificate(cmvp, cert_number) ==
    LET hits == {i \in 1..Len(cmvp.certificates) :
                     cmvp.certificates[i].certificate_number = cert_number}
    IN  IF hits = {} THEN None
        ELSE LET entry == cmvp.certificates[Min(hits)]
             IN  Some([certificate_number |-> entry.certificate_number,
                       vendor |-> entry.vendor,
                       validation_level |->
                           IF entry.validation_level \in {"Level1", "Level2", "Level3", "Level4"}
                           THEN entry.validation_level ELSE "Level1",
                       algorithms |-> entry.algorithms,
                       status |-> CASE entry.status = "active" -> "Active"
                                    [] entry.status = "historical" -> "Historical"
                                    [] entry.status = "revoked" -> "Revoked"
                                    [] OTHER -> "Historical"])

\* the value Regex::new(..).expect(..) gives for a pattern
CompiledPatterns(name) == <<"Regex", name>>

\* the statics the detectors dereference for one line, in the order of the
\* scan loop: detect_rsa asks RSA_KEYGEN only when RSA_PATTERN does not match
\* and RSA_KEY_SIZE only when one of the two matched; every other detector
\* asks its own pattern
PatternUses(line) ==
    <<"RSA_PATTERN">>
    \o (IF RSA_PATTERN(line) THEN <<>> ELSE <<"RSA_KEYGEN">>)
    \o (IF RSA_PATTERN(line) \/ RSA_KEYGEN(line) THEN <<"RSA_KEY_SIZE">> ELSE <<>>)
    \o SubSeq(PatternStatics, 4, 12)

\* the dereferences of the scan of run k of the lines of a source
RunUses(src, k) == PatternUses(source_lines(src)[k].text)

\* the dereferences that do not find their cell complete
PendingUses(uses, cells) == SelectSeq(uses, LAMBDA name : cells[name].state # "complete")

ThreadInputs ==
    {<<[runs |-> <<Run(<<"m", "d", "5", " ", "r", "s", "a", " ", "4", "0", "9", "6">>, 1), Run(<<"s", "h", "a", "1", "(", "x", ")">>, 1)>>, final_newline |-> TRUE], <<"P", "Y">>>>,
     <<[runs |-> <<Run(<<"x">>, 2)>>, final_newline |-> FALSE], <<"r", "u", "s", "t">>>>,
     <<[runs |-> <<Run(<<" ", " ">>, 1)>>, final_newline |-> TRUE], <<"P", "Y">>>>}

LookupInputs == {"Rsa", "Md5"}

CertInputs == {"4282", "0000"}

\* a thread between two operations
ThreadIdle(done) ==
    [pc |-> "idle", src |-> Idle, lang |-> Idle, t |-> Idle, k |-> 0,
     line_num |-> 0, uses |-> Idle, local |-> Idle, building |-> Idle, outcome |-> Idle,
     seen |-> Idle, status |-> Idle, done |-> done]

InitThreads ==
    /\ threads = [th \in Threads |-> ThreadIdle(0)]
    /\ cell = [name \in Statics |-> LazyNew]
    /\ db = Idle
    /\ source = Idle
    /\ language = Idle
    /\ outcome = NoOutcome
    /\ result = Idle
    /\ crypto_type = Idle
    /\ key_size = Idle
    /\ classification = Idle
    /\ answer = Idle
    /\ pc = Idle
    /\ walk = Idle
    /\ dataset = Idle

ThreadFrame ==
    UNCHANGED <<source, language, outcome, result, crypto_type, key_size,
                classification, answer, pc, walk, dataset>>

\* the checks of analyze before its scan loop: the error it returns, or the
\* language
analyze_checks(src, lang_tag) ==
    IF ~parse_language(lang_tag).ok THEN parse_language(lang_tag)
    ELSE IF trim_is_empty(src) THEN Err("InvalidSource", <<>>)
    ELSE IF source_len(src) > MAX_SOURCE_SIZE
         THEN Err("SourceTooLarge", <<source_len(src), MAX_SOURCE_SIZE>>)
    ELSE IF line_count(src) > MAX_LINES
         THEN Err("TooManyLines", <<line_count(src), MAX_LINES>>)
    ELSE parse_language(lang_tag)

\* a thread after the checks of analyze, before the first line of the loop
audit_begun(thread, in, checks) ==
    IF ~checks.ok
    THEN [thread EXCEPT !.pc = "audited", !.src = in[1], !.lang = in[2],
                        !.outcome = checks]
    ELSE [thread EXCEPT !.pc = "scanning", !.src = in[1], !.lang = in[2],
                        !.k = 1, !.line_num = 1, !.uses = RunUses(in[1], 1),
                        !.local = AuditResult_new(checks.value, line_count(in[1]))]

\* analyze(source, language) is called: the checks before the scan loop
AuditBegin ==
    /\ \E th \in Threads, in \in ThreadInputs :
        /\ threads[th].pc = "idle"
        /\ threads[th].done < MaxOps
        /\ threads' = [threads EXCEPT ![th] =
               audit_begun(@, in, analyze_checks(in[1], in[2]))]
    /\ UNCHANGED <<cell, db>>
    /\ ThreadFrame

\* a detector dereferences its pattern inside the scan loop and finds the
\* cell incomplete: the thread becomes the one that compiles this pattern;
\* while another thread compiles it, the thread waits
PatternsDeref ==
    /\ \E th \in Threads :
        /\ threads[th].pc = "scanning"
        /\ threads[th].k <= Len(source_lines(threads[th].src))
        /\ PendingUses(threads[th].uses, cell) # <<>>
        /\ LET name == Head(PendingUses(threads[th].uses, cell))
           IN  /\ cell[name].state = "incomplete"
               /\ threads' = [threads EXCEPT ![th] = [@ EXCEPT !.pc = "compiling", !.t = name]]
               /\ cell' = [cell EXCEPT ![name] = Lazy_begin(@)]
    /\ UNCHANGED db
    /\ ThreadFrame

\* Regex::new(...).expect(...) has returned: the pattern is stored in its
\* own static and the detector goes on
PatternsStore ==
    /\ \E th \in Threads :
        /\ threads[th].pc = "compiling"
        /\ cell' = [cell EXCEPT ![threads[th].t] =
                        Lazy_store(@, CompiledPatterns(threads[th].t))]
        /\ threads' = [threads EXCEPT ![th] = [@ EXCEPT !.pc = "scanning", !.t = Idle]]
    /\ UNCHANGED db
    /\ ThreadFrame

\* the scan loop of analyze, one run of lines a step, on the thread's own
\* AuditResult: every pattern the detectors ask for these lines is complete
AuditScan ==
    /\ \E th \in Threads :
        /\ threads[th].pc = "scanning"
        /\ threads[th].k <= Len(source_lines(threads[th].src))
        /\ PendingUses(threads[th].uses, cell) = <<>>
        /\ LET run == source_lines(threads[th].src)[threads[th].k]
               more == threads[th].k < Len(source_lines(threads[th].src))
           IN  threads' = [threads EXCEPT ![th] =
                   [@ EXCEPT !.local = ScanRun(@, run.text, threads[th].line_num, run.count),
                             !.line_num = @ + run.count,
                             !.uses = IF more THEN RunUses(threads[th].src, threads[th].k + 1)
                                      ELSE <<>>,
                             !.k = @ + 1]]
    /\ UNCHANGED <<cell, db>>
    /\ ThreadFrame

\* the end of analyze: the score, the recommendations, Ok(result)
AuditEnd ==
    /\ \E th \in Threads :
        /\ threads[th].pc = "scanning"
        /\ threads[th].k > Len(source_lines(threads[th].src))
        /\ threads' = [threads EXCEPT ![th] =
               [@ EXCEPT !.pc = "audited", !.uses = Idle,
                         !.outcome = Ok(generate_recommendations(
                                            calculate_risk_score(threads[th].local, TRUE)))]]
    /\ UNCHANGED <<cell, db>>
    /\ ThreadFrame

\* get_cccs_status(crypto_type) is called
LookupBegin ==
    /\ \E th \in Threads, ct \in LookupInputs :
        /\ threads[th].pc = "idle"
        /\ threads[th].done < MaxOps
        /\ threads' = [threads EXCEPT ![th] = [@ EXCEPT !.pc = "deref", !.t = ct]]
    /\ UNCHANGED <<cell, db>>
    /\ ThreadFrame

\* ALGORITHM_DB is dereferenced: the cell is complete, or the thread becomes
\* the one that runs the initializer; while another runs it, it waits
DbDeref ==
    /\ \E th \in Threads :
        /\ threads[th].pc = "deref"
        /\ cell["ALGORITHM_DB"].state # "running"
        /\ IF cell["ALGORITHM_DB"].state = "complete"
           THEN /\ threads' = [threads EXCEPT ![th].pc = "read"]
                /\ cell' = cell
           ELSE /\ threads' = [threads EXCEPT ![th] =
                       [@ EXCEPT !.pc = "parsing", !.building = [algorithms |-> <<>>]]]
                /\ cell' = [cell EXCEPT !["ALGORITHM_DB"] = Lazy_begin(@)]
    /\ UNCHANGED db
    /\ ThreadFrame

\* serde_json::from_str builds the value on the initializing thread: first
\* the algorithms, then the classification requirements
DbParse ==
    /\ \E th \in Threads :
        /\ threads[th].pc = "parsing"
        /\ threads' = [threads EXCEPT ![th] =
               IF threads[th].building = [algorithms |-> <<>>]
               THEN [@ EXCEPT !.building = [algorithms |-> EmbeddedDb.algorithms]]
               ELSE [@ EXCEPT !.building = EmbeddedDb, !.pc = "parsed"]]
    /\ UNCHANGED <<cell, db>>
    /\ ThreadFrame

\* the initializer has returned: the value is stored in the static
DbStore ==
    /\ \E th \in Threads :
        /\ threads[th].pc = "parsed"
        /\ db' = threads[th].building
        /\ cell' = [cell EXCEPT !["ALGORITHM_DB"] = Lazy_store(@, "db")]
        /\ threads' = [threads EXCEPT ![th] = [@ EXCEPT !.pc = "read", !.building = Idle]]
    /\ ThreadFrame

\* the lookup in the table: ALGORITHM_DB.algorithms.get(name)
LookupRead ==
    /\ \E th \in Threads :
        /\ threads[th].pc = "read"
        /\ threads' = [threads EXCEPT ![th] =
               [@ EXCEPT !.pc = "looked", !.seen = db,
                         !.status = get_cccs_status(threads[th].t)]]
    /\ UNCHANGED <<cell, db>>
    /\ ThreadFrame

\* get_cmvp_certificate(cert_number) is called
CertBegin ==
    /\ \E th \in Threads, number \in CertInputs :
        /\ threads[th].pc = "idle"
        /\ threads[th].done < MaxOps
        /\ threads' = [threads EXCEPT ![th] = [@ EXCEPT !.pc = "cmvp_deref", !.t = number]]
    /\ UNCHANGED <<cell, db>>
    /\ ThreadFrame

\* CMVP_DB is dereferenced: the cell is complete, or the thread becomes the
\* one that runs the initializer; while another runs it, it waits
CmvpDeref ==
    /\ \E th \in Threads :
        /\ threads[th].pc = "cmvp_deref"
        /\ cell["CMVP_DB"].state # "running"
        /\ IF cell["CMVP_DB"].state = "complete"
           THEN /\ threads' = [threads EXCEPT ![th].pc = "cmvp_read"]
                /\ cell' = cell
           ELSE /\ threads' = [threads EXCEPT ![th].pc = "cmvp_parsing"]
                /\ cell' = [cell EXCEPT !["CMVP_DB"] = Lazy_begin(@)]
    /\ UNCHANGED db
    /\ ThreadFrame

\* serde_json::from_str(..).expect(..) has returned: the value is stored in
\* the static
CmvpStore ==
    /\ \E th \in Threads :
        /\ threads[th].pc = "cmvp_parsing"
        /\ cell' = [cell EXCEPT !["CMVP_DB"] = Lazy_store(@, EmbeddedCmvp)]
        /\ threads' = [threads EXCEPT ![th].pc = "cmvp_read"]
    /\ UNCHANGED db
    /\ ThreadFrame

\* the search in the certificates: CMVP_DB.certificates.iter().find(..)
CertRead ==
    /\ \E th \in Threads :
        /\ threads[th].pc = "cmvp_read"
        /\ threads' = [threads EXCEPT ![th] =
               [@ EXCEPT !.pc = "certified", !.seen = cell["CMVP_DB"].value,
                         !.status = get_cmvp_certificate(cell["CMVP_DB"].value,
                                                         threads[th].t)]]
    /\ UNCHANGED <<cell, db>>
    /\ ThreadFrame

\* the caller drops what the operation returned and goes on
ThreadContinue ==
    /\ \E th \in Threads :
        /\ threads[th].pc \in {"audited", "looked", "certified"}
        /\ threads' = [threads EXCEPT ![th] = ThreadIdle(threads[th].done + 1)]
    /\ UNCHANGED <<cell, db>>
    /\ ThreadFrame

NextThreads ==
    \/ AuditBegin \/ PatternsDeref \/ PatternsStore \/ AuditScan \/ AuditEnd
    \/ LookupBegin \/ DbDeref \/ DbParse \/ DbStore \/ LookupRead
    \/ CertBegin \/ CmvpDeref \/ CmvpStore \/ CertRead
    \/ ThreadContinue

SpecThreads == InitThreads /\ [][NextThreads]_vars

----------------------------------------------------------------------------
(* The life of a process: build.rs checks the dataset when the crate is    *)
(* built, main starts, and the operations it serves read ALGORITHM_DB,     *)
(* whose initializer parses the embedded document at the first access.     *)

MaxServed == 2

\* A JSON value, as serde_json::Value holds it
JString(s) == [type |-> "string", string |-> s]

JNumber(n) == [type |-> "number", number |-> n]

JBool(b) == [type |-> "bool", bool |-> b]

JNull == [type |-> "null"]

JArray(items) == [type |-> "array", items |-> items]

JObject(fields) == [type |-> "object", fields |-> fields]

\* The types a document is deserialized into: String, u32, bool, Vec<T>,
\* Option<T>, HashMap<String, T>, and a struct with #[derive(Deserialize)],
\* given as its fields in the order of their declaration, <<name, type>>.
TString == [kind |-> "String"]

TU32 == [kind |-> "u32"]

TBool == [kind |-> "bool"]

TVec(t) == [kind |-> "Vec", of |-> t]

TOption(t) == [kind |-> "Option", of |-> t]

THashMap(t) == [kind |-> "HashMap", of |-> t]

TStruct(fields) == [kind |-> "struct", fields |-> fields]

\* struct AlgorithmDatabaseEntry
AlgorithmDatabaseEntry ==
    TStruct(<< <<"algorithm", TString>>, <<"cccs_status", TString>>,
               <<"itsp_reference", TString>>, <<"approved_key_sizes", TVec(TU32)>>,
               <<"approved_modes", TVec(TString)>>, <<"cmvp_required", TBool>>,
               <<"conditions", TVec(TString)>>, <<"sunset_date", TOption(TString)>>,
               <<"description", TString>> >>)

\* struct ClassificationRequirements
ClassificationRequirements ==
    TStruct(<< <<"minimum_aes_key_size", TU32>>, <<"minimum_rsa_key_size", TU32>>,
               <<"minimum_ecc_key_size", TU32>>, <<"approved_hash", TVec(TString)>>,
               <<"cmvp_required", TBool>> >>)

\* struct DatabaseMetadata
DatabaseMetadata ==
    TStruct(<< <<"version", TString>>, <<"updated", TString>>, <<"source", TString>>,
               <<"description", TString>> >>)

\* struct AlgorithmDatabase
AlgorithmDatabase ==
    TStruct(<< <<"metadata", DatabaseMetadata>>,
               <<"algorithms", THashMap(AlgorithmDatabaseEntry)>>,
               <<"classification_requirements", THashMap(ClassificationRequirements)>> >>)

\* the names of the fields of a struct
FieldNames(t) == {t.fields[i][1] : i \in 1..Len(t.fields)}

\* the place of the field f in the declaration of a struct
FieldIndex(t, f) == CHOOSE i \in 1..Len(t.fields) : t.fields[i][1] = f

\* the fields serde requires of a row of "algorithms": all but the Option
RequiredFields ==
    {f \in FieldNames(AlgorithmDatabaseEntry) :
        AlgorithmDatabaseEntry.fields[FieldIndex(AlgorithmDatabaseEntry, f)][2].kind # "Option"}

\* the JSON value v deserializes into the type t.  A struct is read from an
\* object, whose unknown fields are passed over and in which only a field of
\* type Option may be missing, or from an array that holds its fields in the
\* order of their declaration; an Option takes null for None.
RECURSIVE Deserializes(_, _)
Deserializes(v, t) ==
    CASE t.kind = "String" -> v.type = "string"
      [] t.kind = "u32" -> v.type = "number" /\ v.number >= 0
      [] t.kind = "bool" -> v.type = "bool"
      [] t.kind = "Vec" ->
            v.type = "array" /\ \A i \in 1..Len(v.items) : Deserializes(v.items[i], t.of)
      [] t.kind = "Option" -> v.type = "null" \/ Deserializes(v, t.of)
      [] t.kind = "HashMap" ->
            v.type = "object" /\ \A k \in DOMAIN v.fields : Deserializes(v.fields[k], t.of)
      [] t.kind = "struct" ->
            \/ /\ v.type = "object"
               /\ \A i \in 1..Len(t.fields) :
                     IF t.fields[i][1] \in DOMAIN v.fields
                     THEN Deserializes(v.fields[t.fields[i][1]], t.fields[i][2])
                     ELSE t.fields[i][2].kind = "Option"
            \/ /\ v.type = "array"
               /\ Len(v.items) = Len(t.fields)
               /\ \A i \in 1..Len(t.fields) : Deserializes(v.items[i], t.fields[i][2])

\* the value of type t that the JSON value v deserializes into
RECURSIVE Deserialize(_, _)
Deserialize(v, t) ==
    CASE t.kind = "String" -> v.string
      [] t.kind = "u32" -> v.number
      [] t.kind = "bool" -> v.bool
      [] t.kind = "Vec" -> [i \in 1..Len(v.items) |-> Deserialize(v.items[i], t.of)]
      [] t.kind = "Option" ->
            IF v.type = "null" THEN None ELSE Some(Deserialize(v, t.of))
      [] t.kind = "HashMap" -> [k \in DOMAIN v.fields |-> Deserialize(v.fields[k], t.of)]
      [] t.kind = "struct" ->
            [f \in FieldNames(t) |->
                IF v.type = "array"
                THEN Deserialize(v.items[FieldIndex(t, f)], t.fields[FieldIndex(t, f)][2])
                ELSE IF f \in DOMAIN v.fields
                     THEN Deserialize(v.fields[f], t.fields[FieldIndex(t, f)][2])
                     ELSE None]

\* a file whose text is the JSON value v
JsonFile(v) == [exists |-> TRUE, text |-> TRUE, json |-> TRUE, value |-> v]

\* a file whose text is not JSON
NotJson == [exists |-> TRUE, text |-> TRUE, json |-> FALSE]

\* a path that exists and that fs::read_to_string cannot read: a file whose
\* bytes are not UTF-8 text, or a directory
NotText == [exists |-> TRUE, text |-> FALSE, json |-> FALSE]

\* a file that is not there
Missing == [exists |-> FALSE, text |-> FALSE, json |-> FALSE]

\* the JSON arrays of a list of strings and of a list of numbers
JStrings(list) == JArray([i \in 1..Len(list) |-> JString(list[i])])

JNumbers(list) == JArray([i \in 1..Len(list) |-> JNumber(list[i])])

\* a row of "algorithms" as JSON: the fields of the entry e, no mode, no
\* sunset date and an empty description
EntryJson(e) ==
    JObject([algorithm |-> JString(e.algorithm),
             cccs_status |-> JString(e.cccs_status),
             itsp_reference |-> JString(e.itsp_reference),
             approved_key_sizes |-> JNumbers(e.approved_key_sizes),
             approved_modes |-> JStrings(<<>>),
             cmvp_required |-> JBool(e.cmvp_required),
             conditions |-> JStrings(e.conditions),
             sunset_date |-> JNull,
             description |-> JString("")])

\* a row of "classification_requirements" as JSON
RequirementsJson(r) ==
    JObject([minimum_aes_key_size |-> JNumber(r.minimum_aes_key_size),
             minimum_rsa_key_size |-> JNumber(r.minimum_rsa_key_size),
             minimum_ecc_key_size |-> JNumber(r.minimum_ecc_key_size),
             approved_hash |-> JStrings(<<"SHA-256">>),
             cmvp_required |-> JBool(r.cmvp_required)])

MetadataJson ==
    JObject([version |-> JString("1.0"), updated |-> JString("2025-01-01"),
             source |-> JString("ITSP.40.111"), description |-> JString("")])

\* the document of the database d
Document(d) ==
    JsonFile(JObject(
        [metadata |-> MetadataJson,
         algorithms |-> JObject([n \in DOMAIN d.algorithms |-> EntryJson(d.algorithms[n])]),
         classification_requirements |->
             JObject([k \in DOMAIN d.classification_requirements |->
                         RequirementsJson(d.classification_requirements[k])])]))

\* the object obj without its field f
Without(obj, f) == JObject(Restrict(obj.fields, DOMAIN obj.fields \ {f}))

\* the object obj with the value v in its field f
With(obj, f, v) == JObject([obj.fields EXCEPT ![f] = v])

\* the document doc with the row n of "algorithms" replaced by row
WithRow(doc, n, row) == [doc EXCEPT !.value.fields.algorithms.fields[n] = row]

RowOf(doc, n) == doc.value.fields.algorithms.fields[n]

\* the row as the array of its fields, in the order of their declaration
AsArray(row) ==
    JArray([i \in 1..Len(AlgorithmDatabaseEntry.fields) |->
               row.fields[AlgorithmDatabaseEntry.fields[i][1]]])

\* the documents data/cccs_algorithms.json may be: the dataset; no file; a
\* file that cannot be read as text; a text that is not JSON; a row without one of its fields, required or not;
\* a document without one of its sections; a level without its hashes; a
\* value of another type than its field; a row written as an array; a row
\* whose status is none of the five known strings
Documents ==
    {Document(BaseDb), NotJson, NotText, Missing}
    \cup {WithRow(Document(BaseDb), n, Without(RowOf(Document(BaseDb), n), f)) :
             n \in {"RSA", "MD5"}, f \in FieldNames(AlgorithmDatabaseEntry)}
    \cup {[Document(BaseDb) EXCEPT !.value = Without(@, f)] :
             f \in {"metadata", "classification_requirements"}}
    \cup {[Document(BaseDb) EXCEPT !.value.fields.classification_requirements.fields["PROTECTED_A"] =
               Without(@, "approved_hash")]}
    \cup {WithRow(Document(BaseDb), "RSA", With(RowOf(Document(BaseDb), "RSA"), f[1], f[2])) :
             f \in {<<"approved_key_sizes", JStrings(<<"2048">>)>>,
                    <<"approved_key_sizes", JNumbers(<<2048, -1>>)>>,
                    <<"cmvp_required", JString("true")>>,
                    <<"description", JNull>>}}
    \cup {WithRow(Document(BaseDb), "RSA", AsArray(RowOf(Document(BaseDb), "RSA")))}
    \cup {WithRow(Document(BaseDb), n, With(RowOf(Document(BaseDb), n), "cccs_status", JString(s))) :
             n \in {"RSA", "MD5"}, s \in {"aproved", "Prohibited", "retired"}}

\* a document of the CMVP certificates, without certificate
CmvpDocument ==
    JsonFile(JObject([metadata |-> MetadataJson, certificates |-> JArray(<<>>),
                      library_mappings |-> JObject(<<>>)]))

\* the files data/cmvp_certificates.json may be
CmvpFiles == {CmvpDocument, NotJson, NotText, Missing}

\* the two files of data/: either may be wrong, the other being right
Datasets ==
    {[cccs |-> d, cmvp |-> CmvpDocument] : d \in Documents}
    \cup {[cccs |-> Document(BaseDb), cmvp |-> c] : c \in CmvpFiles}

\* build.rs: path.exists(), fs::read_to_string(path).expect(..) and
\* serde_json::from_str::<serde_json::Value>
build_accepts(file, name) ==
    IF ~file.exists THEN Panic(name \o " database not found")
    ELSE IF ~file.text THEN Panic("Failed to read " \o name \o " database")
    ELSE IF ~file.json THEN Panic(name \o " database contains invalid JSON")
    ELSE Ok(<<>>)

\* build.rs, main: the CCCS algorithms database is checked, then the CMVP
\* certificates database
build_main(files) ==
    IF IsPanic(build_accepts(files.cccs, "CCCS algorithms"))
    THEN build_accepts(files.cccs, "CCCS algorithms")
    ELSE build_accepts(files.cmvp, "CMVP certificates")

\* serde_json::from_str::<AlgorithmDatabase> of the text include_str! embeds
serde_from_str(doc) ==
    IF doc.json /\ Deserializes(doc.value, AlgorithmDatabase)
    THEN Ok(Deserialize(doc.value, AlgorithmDatabase))
    ELSE Err("ParseError", <<>>)

InitStartup ==
    /\ dataset \in Datasets
    /\ pc = "build"
    /\ cell = [ALGORITHM_DB |-> LazyNew]
    /\ db = Idle
    /\ answer = [served |-> 0, last |-> Idle]
    /\ source = Idle
    /\ language = Idle
    /\ outcome = NoOutcome
    /\ result = Idle
    /\ crypto_type = Idle
    /\ key_size = Idle
    /\ classification = Idle
    /\ threads = Idle
    /\ walk = Idle

StartupFrame ==
    UNCHANGED <<source, language, result, key_size, classification, threads,
                walk, dataset>>

\* cargo build: build.rs checks that the two files are there, are read as
\* text and are JSON,
\* and panics at the first that is not
Build ==
    /\ pc = "build"
    /\ pc' = IF IsPanic(build_main(dataset)) THEN "build_failed" ELSE "built"
    /\ answer' = IF IsPanic(build_main(dataset))
                 THEN [answer EXCEPT !.last = build_main(dataset)] ELSE answer
    /\ UNCHANGED <<cell, db, outcome, crypto_type>>
    /\ StartupFrame

\* main: the arguments are read; no static is touched
Start ==
    /\ pc = "built"
    /\ pc' = "running"
    /\ UNCHANGED <<cell, db, answer, outcome, crypto_type>>
    /\ StartupFrame

\* an audit is served: analyze reads no database
ServeAudit ==
    /\ pc = "running"
    /\ answer.served < MaxServed
    /\ \E in \in ThreadInputs :
          /\ outcome' = analyze(in[1], in[2])
          /\ answer' = [served |-> answer.served + 1, last |-> "audit"]
    /\ UNCHANGED <<pc, cell, db, crypto_type>>
    /\ StartupFrame

\* the first lookup: the Lazy cell runs its initializer, and expect panics
\* when the document does not parse
FirstLookup ==
    /\ pc = "running"
    /\ answer.served < MaxServed
    /\ cell["ALGORITHM_DB"].state = "incomplete"
    /\ \E ct \in Range(CryptoTypes) :
          /\ crypto_type' = ct
          /\ IF serde_from_str(dataset.cccs).ok
             THEN /\ db' = serde_from_str(dataset.cccs).value
                  /\ cell' = [cell EXCEPT !["ALGORITHM_DB"] = Lazy_store(Lazy_begin(@), "db")]
                  /\ pc' = "looking"
                  /\ answer' = answer
             ELSE /\ db' = db
                  /\ cell' = [cell EXCEPT !["ALGORITHM_DB"] =
                                 [Lazy_begin(@) EXCEPT !.state = "poisoned"]]
                  /\ pc' = "panicked"
                  /\ answer' = [answer EXCEPT !.last =
                                   Panic("Failed to parse CCCS algorithms database")]
    /\ UNCHANGED outcome
    /\ StartupFrame

\* a later lookup finds the cell complete
LaterLookup ==
    /\ pc = "running"
    /\ answer.served < MaxServed
    /\ cell["ALGORITHM_DB"].state = "complete"
    /\ \E ct \in Range(CryptoTypes) : crypto_type' = ct
    /\ pc' = "looking"
    /\ UNCHANGED <<cell, db, answer, outcome>>
    /\ StartupFrame

\* get_cccs_status on the table
ServeLookup ==
    /\ pc = "looking"
    /\ answer' = [served |-> answer.served + 1, last |-> get_cccs_status(crypto_type)]
    /\ pc' = "running"
    /\ UNCHANGED <<cell, db, outcome, crypto_type>>
    /\ StartupFrame

NextStartup ==
    Build \/ Start \/ ServeAudit \/ FirstLookup \/ LaterLookup \/ ServeLookup

SpecStartup == InitStartup /\ [][NextStartup]_vars

----------------------------------------------------------------------------
(* bin/pqc-scanner.rs: the scan of a directory.  A file is its extension,  *)
(* what fs::metadata and fs::read_to_string do with it, and its content;   *)
(* a directory is its name and its entries, in the order read_dir gives.   *)

MaxFiles == 3

MAX_FILE_SIZE == 10 * 1024 * 1024

File(ext, metadata, read, content) ==
    [ext |-> ext, metadata |-> metadata, read |-> read, content |-> content,
     size |-> source_len(content)]

\* a directory fs::read_dir can read, with the entries it yields
Dir(name, entries) == [dir |-> name, entries |-> entries, read_dir |-> "ok"]

\* a directory fs::read_dir fails on, with the error
UnreadableDir(name, error) == [dir |-> name, entries |-> <<>>, read_dir |-> error]

Text(runs) == [runs |-> runs, final_newline |-> TRUE]

Files ==
    {File("js", "ok", "ok", Text(<<Run(<<"m", "d", "5", " ", "r", "s", "a", " ", "4", "0", "9", "6">>, 1), Run(<<"s", "h", "a", "1", "(", "x", ")">>, 1)>>)),
     File("py", "ok", "ok", Text(<<Run(<<"R", "S", "A", ".", "g", "e", "n", "e", "r", "a", "t", "e", "(", "1", "0", "2", "4", ")">>, 1)>>)),
     File("cc", "ok", "ok", Text(<<Run(<<"x">>, 2)>>)),
     File("txt", "ok", "ok", Text(<<Run(<<"m", "d", "5">>, 1)>>)),
     File("js", "ok", "ok", Text(<<>>)),
     File("js", "ok", "ok", Text(<<Run(<<" ", " ">>, 1)>>)),
     File("js", "ok", "ok", Text(<<Run(<<"x", "x", "x", "x", "x", "x", "x", "x", "x", "x", "x", "x", "x", "x", "x", "x", "x", "x", "x", "x", "x", "x", "x", "x", "x", "x", "x", "x", "x", "x", "x">>, (MAX_FILE_SIZE \div 32) + 1)>>)),
     File("js", "ok", "InvalidData", Text(<<Run(<<"m", "d", "5">>, 1)>>)),
     File("rs", "ok", "PermissionDenied", Text(<<Run(<<"m", "d", "5">>, 1)>>)),
     File("go", "NotFound", "ok", Text(<<Run(<<"m", "d", "5">>, 1)>>))}

Dirs ==
    {Dir("node_modules", <<File("js", "ok", "InvalidData", Text(<<Run(<<"m", "d", "5">>, 1)>>))>>),
     Dir("lib", <<File("js", "ok", "InvalidData", Text(<<Run(<<"m", "d", "5">>, 1)>>)),
                  File("py", "ok", "ok", Text(<<Run(<<"R", "S", "A", ".", "g", "e", "n", "e", "r", "a", "t", "e", "(", "1", "0", "2", "4", ")">>, 1)>>))>>),
     UnreadableDir("vendor", "PermissionDenied")}

\* path.is_dir()
IsDir(entry) == "dir" \in DOMAIN entry

\* path.is_file(): fs::metadata(path) succeeds and tells a regular file; the
\* entry of a broken link is none
is_file(entry) == ~IsDir(entry) /\ entry.metadata = "ok"

\* the match on path.extension() of scan_file
extension_language(ext) ==
    CASE ext = "js" -> Some("JavaScript")
      [] ext = "ts" -> Some("TypeScript")
      [] ext = "py" -> Some("Python")
      [] ext = "rs" -> Some("Rust")
      [] ext = "java" -> Some("Java")
      [] ext = "go" -> Some("Go")
      [] ext \in {"cpp", "cc", "cxx"} -> Some("Cpp")
      [] ext = "cs" -> Some("Csharp")
      [] OTHER -> None

\* the match on lang of scan_file
lang_str(lang) ==
    CASE lang = "JavaScript" -> <<"j", "a", "v", "a", "s", "c", "r", "i", "p", "t">>
      [] lang = "TypeScript" -> <<"t", "y", "p", "e", "s", "c", "r", "i", "p", "t">>
      [] lang = "Python" -> <<"p", "y", "t", "h", "o", "n">>
      [] lang = "Rust" -> <<"r", "u", "s", "t">>
      [] lang = "Java" -> <<"j", "a", "v", "a">>
      [] lang = "Go" -> <<"g", "o">>
      [] lang = "Cpp" -> <<"c", "p", "p">>
      [] lang = "Csharp" -> <<"c", "s", "h", "a", "r", "p">>

\* scan_file: the match on the result of analyze
scan_file_analyzed(audit) ==
    IF audit.ok THEN Ok(Some(audit.value)) ELSE Ok(None)

\* scan_file: the body of if let Some(lang) = language, and its else
scan_file_language(file, lang) ==
    IF ~IsSome(lang) THEN Ok(None)
    ELSE IF file.metadata # "ok" THEN Err("Failed to get metadata", <<file.metadata>>)
    ELSE IF file.size > MAX_FILE_SIZE THEN Ok(None)
    ELSE IF file.size = 0 THEN Ok(None)
    ELSE IF file.read = "InvalidData" THEN Err("Skipping - appears to be binary", <<>>)
    ELSE IF file.read # "ok" THEN Err("Failed to read", <<file.read>>)
    ELSE scan_file_analyzed(analyze(file.content, lang_str(Unwrap(lang))))

\* scan_file
scan_file(file) == scan_file_language(file, extension_language(file.ext))

\* the directories scan_dir_recursive does not enter
SkippedDirs == {"node_modules", ".git", "target"}

Directories ==
    UNION {[1..n -> Files \cup Dirs] : n \in 0..MaxFiles}

\* the directories scan_directory may be given: target.is_dir() holds, and
\* fs::read_dir reads the target or fails on it
Targets == {Dir(".", d) : d \in Directories} \cup {UnreadableDir(".", "PermissionDenied")}

\* scan_directory is about to call scan_dir_recursive(&target, ..)
InitScan ==
    /\ \E t \in Targets :
          walk = [dir |-> t.entries, entries |-> <<t>>, total_files |-> 0,
                  total_vulns |-> 0, critical |-> 0, high |-> 0, results |-> <<>>,
                  outcome |-> NoOutcome]
    /\ pc = "scan"
    /\ source = Idle
    /\ language = Idle
    /\ outcome = NoOutcome
    /\ result = Idle
    /\ crypto_type = Idle
    /\ key_size = Idle
    /\ classification = Idle
    /\ db = Idle
    /\ answer = Idle
    /\ cell = Idle
    /\ threads = Idle
    /\ dataset = Idle

ScanFrame ==
    UNCHANGED <<source, language, outcome, result, crypto_type, key_size,
                classification, db, answer, cell, threads, dataset>>

\* scan_dir_recursive(dir, ..) from fs::read_dir(dir)? on: the error of
\* read_dir ends the scan, else the entries of dir come before the ones that
\* follow it
read_dir(w, dir) ==
    IF dir.read_dir # "ok"
    THEN [w EXCEPT !.outcome = Err("Cannot read directory", <<dir.read_dir>>)]
    ELSE [w EXCEPT !.entries = dir.entries \o Tail(@)]

\* scan_dir_recursive is called on the target, or its loop meets a
\* directory: it passes node_modules, .git and target over, and calls itself
\* on any other (the target, ".", bears none of these names)
EnterDir ==
    /\ pc = "scan"
    /\ Len(walk.entries) > 0
    /\ IsDir(walk.entries[1])
    /\ walk' = IF walk.entries[1].dir \in SkippedDirs
               THEN [walk EXCEPT !.entries = Tail(@)]
               ELSE read_dir(walk, walk.entries[1])
    /\ pc' = IF walk'.outcome = NoOutcome THEN pc ELSE "failed"
    /\ ScanFrame

\* the body of the loop of scan_dir_recursive for a file, scanned being what
\* scan_file returned for it
walk_file(w, scanned) ==
    IF ~scanned.ok THEN [w EXCEPT !.outcome = scanned]
    ELSE IF ~IsSome(scanned.value) THEN [w EXCEPT !.entries = Tail(@)]
    ELSE [w EXCEPT
             !.entries = Tail(@),
             !.total_files = @ + 1,
             !.total_vulns = @ + Unwrap(scanned.value).stats.total_vulnerabilities,
             !.critical = @ + Unwrap(scanned.value).stats.critical_count,
             !.high = @ + Unwrap(scanned.value).stats.high_count,
             !.results = IF Unwrap(scanned.value).stats.total_vulnerabilities > 0
                         THEN Append(@, Unwrap(scanned.value)) ELSE @]

\* the loop of scan_dir_recursive meets an entry that is no directory:
\* else if path.is_file() && let Some(result) = scan_file(&path)?; an entry
\* that is no file either is passed over
ScanEntry ==
    /\ pc = "scan"
    /\ Len(walk.entries) > 0
    /\ ~IsDir(walk.entries[1])
    /\ walk' = IF is_file(walk.entries[1])
               THEN walk_file(walk, scan_file(walk.entries[1]))
               ELSE [walk EXCEPT !.entries = Tail(@)]
    /\ pc' = IF walk'.outcome = NoOutcome THEN pc ELSE "failed"
    /\ ScanFrame

\* the loop is over: Ok(())
ScanDone ==
    /\ pc = "scan"
    /\ Len(walk.entries) = 0
    /\ walk' = [walk EXCEPT !.outcome = Ok(<<>>)]
    /\ pc' = "done"
    /\ ScanFrame

NextScan == EnterDir \/ ScanEntry \/ ScanDone

SpecScan == InitScan /\ [][NextScan]_vars

----------------------------------------------------------------------------
(* A caller that classifies one AuditResult twice at the same level.       *)

\* what a report says about the result: statuses, scores and units
Assessment(report) ==
    [control_assessment |-> report.control_assessment,
     compliance_score |-> report.summary.compliance_score,
     risk_score |-> report.summary.risk_score,
     classification_compliant |-> report.summary.classification_compliant,
     findings |-> report.findings]

InitClassify ==
    /\ result \in {BuildResult(list) : list \in ShortLists}
    /\ classification \in SecurityClassifications
    /\ db = BaseDb
    /\ \E file_path \in {None, Some("test.js")} :
           answer = [file_path |-> file_path, given |-> result, reports |-> <<>>]
    /\ source = Idle
    /\ language = Idle
    /\ outcome = NoOutcome
    /\ crypto_type = Idle
    /\ key_size = Idle
    /\ pc = "call"
    /\ cell = Idle
    /\ threads = Idle
    /\ walk = Idle
    /\ dataset = Idle

\* generate_itsg33_report(&audit_result, classification, file_path): each
\* call builds its own HashMap of groups, whose iteration order is its own
Classify ==
    /\ Len(answer.reports) < 2
    /\ \E order \in IterationOrders(group_keys(result)),
          rows \in RowOrders(db) :
           answer' = [answer EXCEPT !.reports =
                         Append(@, generate_itsg33_report(result, classification,
                                       answer.file_path, order, rows))]
    /\ pc' = IF Len(answer.reports) = 0 THEN "once" ELSE "twice"
    /\ UNCHANGED <<source, language, outcome, result, crypto_type, key_size,
                   classification, db,
                   cell, threads, walk, dataset>>

NextClassify == Classify

SpecClassify == InitClassify /\ [][NextClassify]_vars

----------------------------------------------------------------------------
(* remediation.rs: template-based fixes for the findings of an audit.      *)

\* the character U+0000
NulByte == "\\u0000"

\* str::contains(&str), case-sensitive
contains(l, w) == \E i \in 1..Len(l) : HasAt(l, i, w)

\* str::replace(from, to): the non-overlapping matches from the left
RECURSIVE replace_at(_, _, _, _)
replace_at(l, i, from, to) ==
    IF i > Len(l) THEN <<>>
    ELSE IF HasAt(l, i, from) THEN to \o replace_at(l, i + Len(from), from, to)
    ELSE <<l[i]>> \o replace_at(l, i + 1, from, to)

replace(l, from, to) == replace_at(l, 1, from, to)

\* u32::to_string
RECURSIVE u32_to_string(_)
u32_to_string(n) ==
    IF n < 10 THEN <<ToString(n)>>
    ELSE u32_to_string(n \div 10) \o <<ToString(n % 10)>>

\* validate_file_path with the traversal check before the null-byte check
validate_file_path_traversal_first(path) ==
    IF Len(path) = 0 THEN Err("Empty file path", <<>>)
    ELSE IF contains(path, <<".", ".">>) THEN Err("Path traversal detected: ", <<path>>)
    ELSE IF NulByte \in Range(path) THEN Err("File path contains null byte", <<>>)
    ELSE IF ByteLen(path) > 4096
         THEN Err("File path too long: ", <<ByteLen(path), " bytes (max 4096)">>)
    ELSE Ok(<<>>)

\* validate_file_path
validate_file_path(path) ==
    IF Len(path) = 0 THEN Err("Empty file path", <<>>)
    ELSE IF NulByte \in Range(path) THEN Err("File path contains null byte", <<>>)
    ELSE IF contains(path, <<".", ".">>) THEN Err("Path traversal detected: ", <<path>>)
    ELSE IF ByteLen(path) > 4096
         THEN Err("File path too long: ", <<ByteLen(path), " bytes (max 4096)">>)
    ELSE Ok(<<>>)

\* struct CodeFix; confidence in hundredths
CodeFix(file_path, vuln, old_code, new_code, confidence, algorithm, explanation, auto_applicable) ==
    [file_path |-> file_path,
     line |-> vuln.line,
     column |-> vuln.column,
     old_code |-> old_code,
     new_code |-> new_code,
     confidence |-> confidence,
     algorithm |-> algorithm,
     explanation |-> explanation,
     auto_applicable |-> auto_applicable]

\* remediate_md5
remediate_md5(vuln, file_path) ==
    LET old_code == trim(vuln.context)
        new_code ==
            IF contains(old_code, <<"m", "d", "5">>) /\ contains(old_code, <<"h", "a", "s", "h", "l", "i", "b">>)
            THEN replace(old_code, <<"m", "d", "5">>, <<"s", "h", "a", "2", "5", "6">>)
            ELSE IF contains(old_code, <<"M", "D", "5">>) /\ contains(old_code, <<"c", "r", "y", "p", "t", "o">>)
            THEN replace(replace(old_code, <<"M", "D", "5">>, <<"S", "H", "A", "2", "5", "6">>), <<"m", "d", "5">>, <<"s", "h", "a", "2", "5", "6">>)
            ELSE IF contains(old_code, <<"M", "d", "5">>)
            THEN replace(replace(old_code, <<"M", "d", "5">>, <<"S", "h", "a", "2", "5", "6">>), <<"M", "D", "5">>, <<"S", "H", "A", "2", "5", "6">>)
            ELSE replace(replace(old_code, <<"m", "d", "5">>, <<"s", "h", "a", "2", "5", "6">>), <<"M", "D", "5">>, <<"S", "H", "A", "2", "5", "6">>)
    IN  Some(CodeFix(file_path, vuln, old_code, new_code, 85, <<"MD5 → SHA-256">>,
                     "Replaced deprecated MD5 hash with SHA-256. Note: For cryptographic security, consider using SHA-3 or BLAKE2.", TRUE))

\* remediate_sha1
remediate_sha1(vuln, file_path) ==
    LET old_code == trim(vuln.context)
        new_code ==
            IF contains(old_code, <<"s", "h", "a", "1">>) THEN replace(old_code, <<"s", "h", "a", "1">>, <<"s", "h", "a", "2", "5", "6">>)
            ELSE IF contains(old_code, <<"S", "H", "A", "1">>) THEN replace(old_code, <<"S", "H", "A", "1">>, <<"S", "H", "A", "2", "5", "6">>)
            ELSE IF contains(old_code, <<"S", "h", "a", "1">>) THEN replace(old_code, <<"S", "h", "a", "1">>, <<"S", "h", "a", "2", "5", "6">>)
            ELSE replace(old_code, <<"S", "H", "A", "-", "1">>, <<"S", "H", "A", "-", "2", "5", "6">>)
    IN  Some(CodeFix(file_path, vuln, old_code, new_code, 90, <<"SHA-1 → SHA-256">>,
                     "Replaced deprecated SHA-1 hash with SHA-256. SHA-1 is vulnerable to collision attacks.", TRUE))

\* remediate_rsa
remediate_rsa(vuln, file_path) ==
    LET old_code == trim(vuln.context)
        is_weak_key == IsSome(vuln.key_size) /\ Unwrap(vuln.key_size) < 2048
    IN  Some(IF is_weak_key
             THEN CodeFix(file_path, vuln, old_code,
                          replace(old_code, u32_to_string(Unwrap(vuln.key_size)), <<"2", "0", "4", "8">>),
                          70,
                          <<"RSA-", unwrap_or(vuln.key_size, 1024), " → RSA-2048 (interim)">>,
                          "Upgraded RSA key size to 2048 bits (minimum secure size). CRITICAL: Plan migration to post-quantum algorithms (CRYSTALS-Dilithium for signatures, CRYSTALS-Kyber for encryption) as RSA is vulnerable to quantum attacks.",
                          FALSE)
             ELSE CodeFix(file_path, vuln, old_code, old_code, 50,
                          <<"RSA → PQC migration recommended">>,
                          "WARNING: RSA is vulnerable to quantum computing attacks. Recommend migrating to CRYSTALS-Dilithium (signatures) or CRYSTALS-Kyber (encryption). No automatic fix available - requires architectural changes.",
                          FALSE))

\* remediate_des_3des
remediate_des_3des(vuln, file_path) ==
    LET old_code == trim(vuln.context)
        is_3des == vuln.crypto_type = "TripleDes"
        new_code ==
            IF contains(old_code, <<"D", "E", "S">>) \/ contains(old_code, <<"d", "e", "s">>)
            THEN replace(replace(replace(replace(old_code,
                     <<"T", "r", "i", "p", "l", "e", "D", "E", "S">>, <<"A", "E", "S">>), <<"3", "D", "E", "S">>, <<"A", "E", "S">>), <<"D", "E", "S">>, <<"A", "E", "S">>),
                     <<"d", "e", "s">>, <<"a", "e", "s">>)
            ELSE old_code
        algorithm == IF is_3des THEN "3DES" ELSE "DES"
    IN  Some(CodeFix(file_path, vuln, old_code, new_code, 75,
                     <<algorithm, " → AES-256">>,
                     <<"Replaced deprecated ", algorithm, " cipher with AES-256-GCM. ", algorithm,
                       " has known vulnerabilities and small block size. Ensure proper key management and use authenticated encryption mode (GCM).">>,
                     FALSE))

\* the match of generate_remediations without the arm of Des and TripleDes
RemediateOne_no_des_arm(acc, vuln, file_path) ==
    LET t == vuln.crypto_type
        fix == CASE t = "Md5" -> remediate_md5(vuln, file_path)
                 [] t = "Sha1" -> remediate_sha1(vuln, file_path)
                 [] t = "Rsa" -> remediate_rsa(vuln, file_path)
                 [] OTHER -> None
    IN  IF t \in {"Md5", "Sha1", "Rsa"}
        THEN [acc EXCEPT !.fixes = IF IsSome(fix) THEN Append(@, Unwrap(fix)) ELSE @]
        ELSE [acc EXCEPT !.warnings =
                 Append(@, <<"No automatic remediation available for ",
                             CryptoType_to_string(t), " at line ", vuln.line>>)]

\* the match of generate_remediations on one finding: (fixes, warnings)
\* grown by what the finding adds
RemediateOne(acc, vuln, file_path) ==
    LET t == vuln.crypto_type
        fix == CASE t = "Md5" -> remediate_md5(vuln, file_path)
                 [] t = "Sha1" -> remediate_sha1(vuln, file_path)
                 [] t = "Rsa" -> remediate_rsa(vuln, file_path)
                 [] t \in {"Des", "TripleDes"} -> remediate_des_3des(vuln, file_path)
                 [] OTHER -> None
    IN  IF t \in {"Md5", "Sha1", "Rsa", "Des", "TripleDes"}
        THEN [acc EXCEPT !.fixes = IF IsSome(fix) THEN Append(@, Unwrap(fix)) ELSE @]
        ELSE [acc EXCEPT !.warnings =
                 Append(@, <<"No automatic remediation available for ",
                             CryptoType_to_string(t), " at line ", vuln.line>>)]

RECURSIVE RemediateAll(_, _, _)
RemediateAll(acc, vulns, file_path) ==
    IF vulns = <<>> THEN acc
    ELSE RemediateAll(RemediateOne(acc, Head(vulns), file_path), Tail(vulns), file_path)

\* the quotient a / b rounded to the nearest integer, a tie to the even one:
\* the rounding of the f32 operations
RoundTiesEven(a, b) ==
    (a \div b) + (IF 2 * (a % b) > b \/ (2 * (a % b) = b /\ (a \div b) % 2 = 1)
                  THEN 1 ELSE 0)

\* An f32 is counted in units of 2^-24: every confidence of the code lies in
\* [0.5, 1), and so does their mean, where the f32 values are the multiples
\* of 2^-24.
F32Unit == 2 ^ 24

\* the f32 of a literal of the code, the literal given in hundredths
F32Literal(h) == RoundTiesEven(h * F32Unit, 100)

\* the f32 nearest to x units: the 24 most significant bits of x are kept
F32Round(x) ==
    RoundTiesEven(x, 2 ^ Cardinality({k \in 24..30 : x >= 2 ^ k}))
        * (2 ^ Cardinality({k \in 24..30 : x >= 2 ^ k}))

\* fixes.iter().map(|f| f.confidence).sum::<f32>(): the confidences are added
\* in the order of the fixes, every addition rounded to an f32
RECURSIVE SumConfidence(_)
SumConfidence(fixes) ==
    IF fixes = <<>> THEN 0
    ELSE F32Round(SumConfidence(SubSeq(fixes, 1, Len(fixes) - 1))
                  + F32Literal(fixes[Len(fixes)].confidence))

\* an f32 of x units in hundredths, as the quotient <<25 * x, 2^22>>
F32Hundredths(x) == <<25 * x, 2 ^ 22>>

\* generate_remediations; average_confidence is the f32 quotient of the f32
\* sum of the confidences by the number of fixes, in hundredths and kept as
\* a quotient <<numerator, denominator>>
generate_remediations(audit_result, file_path) ==
    LET valid == validate_file_path(file_path)
        done  == RemediateAll([fixes |-> <<>>, warnings |-> <<>>],
                              audit_result.vulnerabilities, file_path)
        auto_fixable == Len(SelectSeq(done.fixes, LAMBDA f : f.auto_applicable))
    IN  IF ~valid.ok
        THEN [fixes |-> <<>>,
              summary |->
                  [total_vulnerabilities |-> audit_result.stats.total_vulnerabilities,
                   auto_fixable |-> 0,
                   manual_review_required |-> 0,
                   average_confidence |-> <<0, 1>>],
              warnings |-> <<<<"Invalid file path: ", valid.error.kind>> \o valid.error.args>>]
        ELSE [fixes |-> done.fixes,
              summary |->
                  [total_vulnerabilities |-> Len(audit_result.vulnerabilities),
                   auto_fixable |-> auto_fixable,
                   manual_review_required |-> Len(done.fixes) - auto_fixable,
                   average_confidence |->
                       IF done.fixes # <<>>
                       THEN F32Hundredths(RoundTiesEven(SumConfidence(done.fixes),
                                                        Len(done.fixes)))
                       ELSE <<0, 1>>],
              warnings |-> done.warnings]

----------------------------------------------------------------------------
(* A caller of generate_remediations.                                      *)

\* findings as analyze reports them, one or more for each primitive
RemediationScanned ==
    {Unwrap(detect_md5(<<"h", " ", "=", " ", "h", "a", "s", "h", "l", "i", "b", ".", "m", "d", "5", "(", "d", "a", "t", "a", ")">>, 1)),
     Unwrap(detect_md5(<<"c", "r", "y", "p", "t", "o", ".", "c", "r", "e", "a", "t", "e", "H", "a", "s", "h", "(", "'", "M", "D", "5", "'", ")">>, 2)),
     Unwrap(detect_md5(<<" ", " ", "M", "d", "5", ".", "c", "r", "e", "a", "t", "e", "(", "M", "D", "5", ")">>, 3)),
     Unwrap(detect_sha1(<<"h", "a", "s", "h", "l", "i", "b", ".", "s", "h", "a", "1", "(", "x", ")", " ", "s", "h", "a", "1">>, 4)),
     Unwrap(detect_sha1(<<"S", "H", "A", "1", ".", "n", "e", "w", "(", ")">>, 5)),
     Unwrap(detect_sha1(<<"S", "h", "a", "1", " ", "S", "H", "A", "-", "1">>, 6)),
     Unwrap(detect_sha1(<<"u", "s", "e", " ", "S", "H", "A", "-", "1", ";">>, 7)),
     Unwrap(detect_rsa(<<"k", "e", "y", " ", "=", " ", "R", "S", "A", ".", "g", "e", "n", "e", "r", "a", "t", "e", "(", "1", "0", "2", "4", ")">>, 8)),
     Unwrap(detect_rsa(<<"r", "s", "a", " ", "4", "0", "9", "6">>, 9)),
     Unwrap(detect_rsa(<<"R", "S", "A">>, 10)),
     Unwrap(detect_des(<<"c", " ", "=", " ", "D", "E", "S", ".", "n", "e", "w", "(", "k", "e", "y", ",", " ", "D", "E", "S", ".", "M", "O", "D", "E", "_", "E", "C", "B", ")">>, 11)),
     Unwrap(detect_des(<<"d", "e", "s", "_", "e", "n", "c", "r", "y", "p", "t", "(", "x", ")">>, 12)),
     Unwrap(detect_triple_des(<<"c", "i", "p", "h", "e", "r", " ", "=", " ", "T", "r", "i", "p", "l", "e", "D", "E", "S", ".", "n", "e", "w", "(", "k", "e", "y", ")">>, 13)),
     Unwrap(detect_triple_des(<<"3", "D", "E", "S">>, 14)),
     Unwrap(detect_ecdsa(<<"e", "c", "d", "s", "a">>, 15)),
     Unwrap(detect_ecdh(<<"E", "C", "D", "H">>, 16)),
     Unwrap(detect_dsa(<<"D", "S", "A", " ">>, 17)),
     Unwrap(detect_diffie_hellman(<<"D", "i", "f", "f", "i", "e", "H", "e", "l", "l", "m", "a", "n">>, 18)),
     Unwrap(detect_rc4(<<"R", "C", "4">>, 19))}

\* findings a caller builds by hand
RemediationHandBuilt ==
    {Vulnerability("Md5", "High", 80, 42, 10, <<"d", "i", "g", "e", "s", "t", "(", "d", "a", "t", "a", ")">>, <<"m">>, "r", None),
     Vulnerability("Rsa", "High", 80, 42, 10, <<"r", "s", "a", " ", "5", "1", "2", " ", "5", "1", "2", "0">>, <<"m">>, "r", Some(512)),
     Vulnerability("TripleDes", "High", 80, 42, 10, <<"t", "r", "i", "p", "l", "e", "(", "x", ")">>, <<"m">>, "r", None)}

RemediationLists ==
    LET all == RemediationScanned \cup RemediationHandBuilt
    IN  {<<>>} \cup {<<v>> : v \in all} \cup {<<v, w>> : v \in all, w \in all}
        \cup {<<u, v, w>> : u \in RemediationHandBuilt, v \in RemediationHandBuilt,
                            w \in RemediationScanned}

\* a path of n characters made of the text, repeated and cut
PathOf(text, n) == SubSeq([i \in 1..n |-> text[((i - 1) % Len(text)) + 1]], 1, n)

FilePaths ==
    {<<>>, <<"s", "r", "c", "/", "m", "a", "i", "n", ".", "r", "s">>, <<"t", "e", "s", "t", ".", "p", "y">>, <<"a", ".", ".", "b">>, <<".", ".", "/", ".", ".", "/", ".", ".", "/", "e", "t", "c", "/", "p", "a", "s", "s", "w", "d">>,
     <<"p", "a", "t", "h", "/", "w", "i", "t", "h", "/">> \o <<NulByte>> \o <<"/", "n", "u", "l", "l">>,
     <<".", ".", "/">> \o <<NulByte>>,
     PathOf(<<"a">>, 4096), PathOf(<<"a">>, 4097), PathOf(<<"a">>, 5000),
     PathOf(<<"d", "i", "r", "/", ".", ".", "/">>, 4100),
     PathOf(<<NulByte, "/">>, 4097),
     PathOf(<<"a">>, 4094) \o <<SmallEAcute>>, PathOf(<<"a">>, 4095) \o <<SmallEAcute>>,
     PathOf(<<"a">>, 4092) \o <<GrinningFace>>, PathOf(<<"a">>, 4093) \o <<GrinningFace>>}

InitRemediate ==
    /\ result \in {BuildResult(list) : list \in RemediationLists}
    /\ answer = Idle
    /\ source = Idle
    /\ language = Idle
    /\ outcome = NoOutcome
    /\ crypto_type = Idle
    /\ key_size = Idle
    /\ classification = Idle
    /\ db = Idle
    /\ pc = "call"
    /\ cell = Idle
    /\ threads = Idle
    /\ walk = Idle
    /\ dataset = Idle

\* generate_remediations(&audit_result, file_path); the path of the call is
\* kept beside what it returned
GenerateRemediations ==
    /\ pc = "call"
    /\ \E file_path \in FilePaths :
           answer' = [file_path |-> file_path,
                      remediation |-> generate_remediations(result, file_path)]
    /\ pc' = "remediated"
    /\ UNCHANGED <<source, language, outcome, result, crypto_type, key_size,
                   classification, db,
                   cell, threads, walk, dataset>>

NextRemediate == GenerateRemediations

SpecRemediate == InitRemediate /\ [][NextRemediate]_vars

----------------------------------------------------------------------------
(* A caller that audits a source and assesses what analyze returned.       *)

\* assess_implementation and generate_summary on the result of analyze, as
\* generate_sc13_report runs them
AssessAnalyzed ==
    /\ pc = "returned"
    /\ outcome.ok
    /\ \E overflow_checks \in BOOLEAN :
           answer' = [status |-> assess_implementation(outcome.value),
                      summary |-> generate_summary(outcome.value, overflow_checks)]
    /\ result' = outcome.value
    /\ pc' = "reported"
    /\ UNCHANGED <<source, language, outcome, crypto_type, key_size,
                   classification, db,
                   cell, threads, walk, dataset>>

NextPipeline == Analyze \/ AssessAnalyzed

SpecPipeline == Init /\ [][NextPipeline]_vars

----------------------------------------------------------------------------
(* Properties of concurrent callers.                                       *)

\* the value the initializer of a static gives
StaticValue(name) ==
    IF name = "ALGORITHM_DB" THEN "db"
    ELSE IF name = "CMVP_DB" THEN EmbeddedCmvp
    ELSE CompiledPatterns(name)

\* C17: with several threads running audits and lookups, the initializer of
\* each static runs at most once and its value is stored at most once (once
\* the cell is complete, exactly once), a complete cell holds the whole
\* value and an incomplete one nothing, the table is the whole dataset from
\* the moment it is stored, every lookup reads the whole table and answers
\* as it would alone, the lines a thread has scanned found every pattern
\* they asked for complete, and every audit returns what analyze returns for
\* its source and language alone.
C17_InitOnceReadOnly ==
    /\ \A name \in Statics :
          /\ cell[name].inits <= 1
          /\ cell[name].stores <= cell[name].inits
          /\ cell[name].state = "complete" =>
                 (cell[name].inits = 1 /\ cell[name].stores = 1
                  /\ cell[name].value = StaticValue(name))
          /\ cell[name].state # "complete" => cell[name].value = Idle
    /\ cell["ALGORITHM_DB"].state = "complete" <=> db = EmbeddedDb
    /\ cell["ALGORITHM_DB"].state # "complete" => db = Idle
    /\ \A th \in Threads :
          /\ threads[th].pc = "looked" =>
                 /\ threads[th].seen = EmbeddedDb
                 /\ threads[th].status =
                        parse_cccs_status(
                            EmbeddedDb.algorithms[algorithm_name(threads[th].t)].cccs_status)
          /\ threads[th].pc = "certified" =>
                 /\ threads[th].seen = EmbeddedCmvp
                 /\ threads[th].status = get_cmvp_certificate(EmbeddedCmvp, threads[th].t)
          /\ threads[th].pc = "scanning" =>
                 \A j \in 1..(threads[th].k - 1) :
                     \A u \in 1..Len(RunUses(threads[th].src, j)) :
                         cell[RunUses(threads[th].src, j)[u]].state = "complete"
          /\ threads[th].pc = "audited" =>
                 threads[th].outcome = analyze(threads[th].src, threads[th].lang)

\* C17: one thread has looked a status up and the other has finished an
\* audit with findings, both after an earlier operation; the database and
\* the patterns the audit asked for were initialized once, by the thread
\* that used them first, and CMVP_DB, which nobody used, is still untouched.
C17_Witness ==
    /\ threads["main"].pc = "looked"
    /\ threads["worker"].pc = "audited"
    /\ threads["worker"].outcome.ok
    /\ Len(threads["worker"].outcome.value.vulnerabilities) > 0
    /\ threads["main"].done = 1
    /\ threads["worker"].done = 1
    /\ cell["ALGORITHM_DB"].inits = 1
    /\ cell["RSA_KEY_SIZE"].inits = 1
    /\ cell["RC4_PATTERN"].stores = 1
    /\ cell["CMVP_DB"].state = "incomplete"

\* the rows of a document that deserializes whose status is none of the
\* five status strings
UnknownStatus(database) ==
    {n \in DOMAIN database.algorithms :
        database.algorithms[n].cccs_status \notin
            {"approved", "conditionally-approved", "deprecated", "prohibited",
             "under-review"}}

\* a dataset is malformed when it is not there, is not read as text or
\* does not parse, when a
\* required field or section is missing or holds a value of another type,
\* or when the status of a row is none of the five status strings
Malformed(doc) ==
    IF doc.exists /\ doc.json /\ Deserializes(doc.value, AlgorithmDatabase)
    THEN UnknownStatus(Deserialize(doc.value, AlgorithmDatabase)) # {}
    ELSE TRUE

\* C18: a malformed classification dataset makes the process fail at
\* startup: it never runs, so it serves nothing, it never panics at the
\* first access of the database, and no row of it is read with another
\* status than it states.
C18_MalformedFailsAtStartup ==
    Malformed(dataset.cccs) =>
        /\ pc \in {"build", "build_failed", "built"}
        /\ answer.served = 0

\* the files of a directory in the order of the scan, the directories that
\* are passed over left out
RECURSIVE FilesOf(_)
FilesOf(entries) ==
    IF Len(entries) = 0 THEN <<>>
    ELSE IF IsDir(entries[1])
         THEN (IF entries[1].dir \in SkippedDirs THEN <<>> ELSE FilesOf(entries[1].entries))
              \o FilesOf(Tail(entries))
         ELSE <<entries[1]>> \o FilesOf(Tail(entries))

\* a file that can be read and whose audit succeeds
Auditable(file) ==
    /\ IsSome(extension_language(file.ext))
    /\ file.metadata = "ok"
    /\ file.read = "ok"
    /\ 0 < file.size
    /\ file.size <= MAX_FILE_SIZE
    /\ analyze(file.content, lang_str(Unwrap(extension_language(file.ext)))).ok

\* the findings of the auditable files of a list
RECURSIVE FindingsOf(_)
FindingsOf(files) ==
    IF Len(files) = 0 THEN 0
    ELSE (IF Auditable(files[1])
          THEN Len(analyze(files[1].content,
                           lang_str(Unwrap(extension_language(files[1].ext)))
                          ).value.vulnerabilities)
          ELSE 0) + FindingsOf(Tail(files))

\* the scan has ended at a directory that fs::read_dir cannot read
DirectoryFailed == pc = "failed" /\ walk.outcome.error.kind = "Cannot read directory"

\* C19: in a directory scan a file that cannot be read or audited does not
\* abort the scan: the scan ends with Ok, every file that can be audited has
\* been audited and counted, and the findings counted are those of these
\* files.
C19_FailedFileIsSkipped ==
    pc \in {"done", "failed"} /\ ~DirectoryFailed =>
        /\ pc = "done"
        /\ walk.outcome.ok
        /\ walk.total_files = Len(SelectSeq(FilesOf(walk.dir), Auditable))
        /\ walk.total_vulns = FindingsOf(FilesOf(walk.dir))

\* the minimum a classification sets for the family of a row, none for a
\* row without key-size axis
FamilyMinimum(entry, reqs) ==
    CASE entry.algorithm = "AES" -> Some(reqs.minimum_aes_key_size)
      [] entry.algorithm = "RSA" -> Some(reqs.minimum_rsa_key_size)
      [] entry.algorithm \in {"ECDSA", "ECDH"} -> Some(reqs.minimum_ecc_key_size)
      [] OTHER -> None

\* the rows that are approved and, when their family has a key-size axis,
\* accept a key size of at least the minimum of the classification
ApprovedAt(c) ==
    {n \in DOMAIN db.algorithms :
        LET entry == db.algorithms[n]
            min == FamilyMinimum(entry, Unwrap(get_classification_requirements(c)))
        IN  /\ entry.cccs_status = "approved"
            /\ IsSome(min) =>
                   \E i \in 1..Len(entry.approved_key_sizes) :
                       entry.approved_key_sizes[i] >= Unwrap(min)}

\* C20: get_approved_algorithms(classification) returns exactly the rows
\* whose status is approved and which, for AES, RSA and the elliptic-curve
\* family, accept a key size of at least the minimum of the classification
\* for the family.
C20_ApprovedAlgorithms ==
    pc = "approved" =>
        /\ Range(answer) = ApprovedAt(classification)
        /\ Len(answer) = Cardinality(ApprovedAt(classification))

----------------------------------------------------------------------------
(* Properties of classification.                                           *)

\* C21: classification is a pure function: two classifications of the same
\* audit result at the same level give the same statuses, the same scores
\* and the same assessed units in the same order, and the audit result
\* given to them is left as it was.
C21_ClassifyIsPure ==
    /\ answer.given = result
    /\ pc = "twice" =>
           Assessment(answer.reports[1]) = Assessment(answer.reports[2])

\* the module-validation flag of the dataset for a level
DatasetCmvpRequired(c) == db.classification_requirements[LevelKey(c)].cmvp_required

\* C22: in one ITSG-33 report the module-validation-required flag is the
\* dataset's value for the report's level (false at the lowest level, true
\* at every higher one) on the CMVP validation of every finding and on
\* every entry of cmvp_validations, so both places agree.
C22_CmvpFlagFromDataset ==
    pc = "itsg33" =>
        /\ DatasetCmvpRequired(classification) = (classification # "Unclassified")
        /\ \A i \in 1..Len(answer.findings) :
              IsSome(answer.findings[i].cmvp_validation) =>
                  Unwrap(answer.findings[i].cmvp_validation).requires_cmvp
                      = DatasetCmvpRequired(classification)
        /\ \A i \in 1..Len(answer.cmvp_validations) :
              answer.cmvp_validations[i].requires_cmvp
                  = DatasetCmvpRequired(classification)

----------------------------------------------------------------------------
(* Properties of the remediations.                                         *)

\* the first check a path fails, in the order empty, null byte, "..",
\* longer than 4096 bytes; "none" for a valid path
PathFault(path) ==
    IF path = <<>> THEN "Empty file path"
    ELSE IF \E i \in 1..Len(path) : path[i] = NulByte THEN "File path contains null byte"
    ELSE IF \E i \in 1..(Len(path) - 1) : path[i] = "." /\ path[i + 1] = "."
         THEN "Path traversal detected: "
    ELSE IF ByteLen(path) >= 4097 THEN "File path too long: "
    ELSE "none"

\* C23: generate_remediations with an invalid file path returns no fixes,
\* exactly one warning, which names the first failed check, and auto_fixable
\* = manual_review_required = 0, whatever the findings; with a valid path
\* no warning is a path warning.
C23_InvalidPathRejected ==
    pc = "remediated" =>
        LET r     == answer.remediation
            fault == PathFault(answer.file_path)
        IN  /\ fault # "none" =>
                  /\ r.fixes = <<>>
                  /\ Len(r.warnings) = 1
                  /\ r.warnings[1][1] = "Invalid file path: "
                  /\ r.warnings[1][2] = fault
                  /\ r.summary.auto_fixable = 0
                  /\ r.summary.manual_review_required = 0
            /\ fault = "none" =>
                  \A i \in 1..Len(r.warnings) : r.warnings[i][1] # "Invalid file path: "

\* C23: a path with a null byte after ".." was given together with an MD5
\* finding and a second finding, and the one warning names the null byte.
C23_Witness ==
    /\ pc = "remediated"
    /\ \E i \in 1..Len(answer.file_path) : answer.file_path[i] = NulByte
    /\ HasAt(answer.file_path, 1, <<".", ".">>)
    /\ Len(result.vulnerabilities) = 2
    /\ result.vulnerabilities[1].crypto_type = "Md5"
    /\ answer.remediation.warnings =
           <<<<"Invalid file path: ", "File path contains null byte">>>>

----------------------------------------------------------------------------
(* Properties of the detectors.                                            *)

\* C24: the risk score of every finding of analyze, stored when the finding
\* was detected, is score_vulnerability of the finding's primitive and key
\* size, for every primitive and every key size, an absent one included.
C24_DetectionMatchesScoring ==
    (pc = "returned" /\ outcome.ok) =>
        \A i \in 1..Len(outcome.value.vulnerabilities) :
            LET f == outcome.value.vulnerabilities[i]
            IN  f.risk_score = score_vulnerability(f.crypto_type, f.key_size)

\* the end of the run of digits that starts at position j of l
RECURSIVE DigitRunEnd(_, _)
DigitRunEnd(l, j) ==
    IF j + 1 <= Len(l) /\ IsDigit(l[j + 1]) THEN DigitRunEnd(l, j + 1) ELSE j

\* the numbers of 3 or 4 digits that follow an RSA keyword of the line: for
\* a keyword, the first run of digits after it, when it has 3 or 4 digits
FollowingNumbers(l) ==
    {from_str(SubSeq(l, j, DigitRunEnd(l, j))) :
        j \in {j \in 1..Len(l) :
                 /\ IsDigit(l[j])
                 /\ DigitRunEnd(l, j) - j + 1 \in {3, 4}
                 /\ \E i \in 1..Len(l) :
                       /\ HasAtCI(l, i, <<"r", "s", "a">>)
                       /\ i + 3 <= j
                       /\ \A k \in (i + 3)..(j - 1) : ~IsDigit(l[k])}}

\* C25: on a line where RSA is detected the key size of the finding is
\* Some(n) whenever a number n of 3 or 4 digits follows the RSA keyword,
\* whatever n is, and none only when no such number is there; an RSA key
\* below 2048 bits written on the line is graded Critical / 100.
C25_RsaKeySizeCaptured ==
    (pc = "returned" /\ outcome.ok /\ Len(source.runs) = 1) =>
        LET l  == LineText(source, 1)
            vs == outcome.value.vulnerabilities
        IN  \A i \in 1..Len(vs) :
                vs[i].crypto_type = "Rsa" =>
                    /\ FollowingNumbers(l) = {} <=> vs[i].key_size = None
                    /\ FollowingNumbers(l) # {} =>
                           /\ IsSome(vs[i].key_size)
                           /\ Unwrap(vs[i].key_size) \in FollowingNumbers(l)
                           /\ Unwrap(vs[i].key_size) < 2048 =>
                                  (vs[i].severity = "Critical" /\ vs[i].risk_score = 100)

\* the positions of l at which w stands, under (?i)
At(l, w) == {i \in 1..Len(l) : HasAtCI(l, i, w)}

\* the positions at which a match of a.*b starts
AtThen(l, a, b) ==
    {i \in At(l, a) : \E j \in (i + Len(a))..Len(l) : HasAtCI(l, j, b)}

\* the positions at which a match of a.*b.*c starts
AtThen3(l, a, b, c) ==
    {i \in At(l, a) : \E j \in (i + Len(a))..Len(l) :
        HasAtCI(l, j, b) /\ \E k \in (j + Len(b))..Len(l) : HasAtCI(l, k, c)}

\* the character positions (1-based) at which a match of the rules of a
\* primitive starts in the line, read from the regular expressions of audit.rs
MatchStarts(t, l) ==
    CASE t = "Rsa" ->
             At(l, <<"r", "s", "a">>) \cup AtThen3(l, <<"g", "e", "n", "e", "r", "a", "t", "e">>, <<"r", "s", "a">>, <<"k", "e", "y">>)
             \cup AtThen(l, <<"g", "e", "n", "e", "r", "a", "t", "e", "k", "e", "y", "p", "a", "i", "r">>, <<"r", "s", "a">>)
             \cup AtThen(l, <<"k", "e", "y", "p", "a", "i", "r", "g", "e", "n", "e", "r", "a", "t", "o", "r", ".", "g", "e", "t", "i", "n", "s", "t", "a", "n", "c", "e">>, <<"r", "s", "a">>)
      [] t = "Ecdsa" ->
             At(l, <<"e", "c", "d", "s", "a">>) \cup At(l, <<"e", "c", "c">>) \cup AtThen(l, <<"e", "l", "l", "i", "p", "t", "i", "c">>, <<"c", "u", "r", "v", "e">>)
             \cup At(l, <<"s", "e", "c", "p", "2", "5", "6", "k", "1">>) \cup At(l, <<"s", "e", "c", "p", "3", "8", "4", "r", "1">>) \cup At(l, <<"p", "r", "i", "m", "e", "2", "5", "6", "v", "1">>)
             \cup At(l, <<"p", "-", "2", "5", "6">>) \cup At(l, <<"p", "-", "3", "8", "4">>) \cup At(l, <<"p", "-", "5", "2", "1">>)
      [] t = "Ecdh" ->
             At(l, <<"e", "c", "d", "h">>) \cup AtThen(l, <<"e", "l", "l", "i", "p", "t", "i", "c">>, <<"d", "i", "f", "f", "i", "e">>)
             \cup At(l, <<"c", "u", "r", "v", "e", "2", "5", "5", "1", "9">>)
      [] t = "Dsa" ->
             {i \in At(l, <<"d", "s", "a">>) : i + 3 <= Len(l) /\ ~InLetterClassCI(l[i + 3])}
             \cup AtThen3(l, <<"d", "i", "g", "i", "t", "a", "l">>, <<"s", "i", "g", "n", "a", "t", "u", "r", "e">>, <<"a", "l", "g", "o", "r", "i", "t", "h", "m">>)
      [] t = "DiffieHellman" ->
             AtThen(l, <<"d", "i", "f", "f", "i", "e">>, <<"h", "e", "l", "l", "m", "a", "n">>) \cup At(l, <<"d", "h", "_">>) \cup At(l, <<"d", "h", "e">>)
      [] t = "Sha1" ->
             {i \in At(l, <<"s", "h", "a", "1">>) : i + 4 <= Len(l) /\ ~IsDigit(l[i + 4])}
             \cup {i \in At(l, <<"s", "h", "a", "-", "1">>) : i + 5 <= Len(l) /\ ~IsDigit(l[i + 5])}
      [] t = "Md5" -> At(l, <<"m", "d", "5">>)
      [] t = "Des" ->
             At(l, <<"d", "e", "s", "_">>) \cup At(l, <<"_", "d", "e", "s">>) \cup At(l, <<".", "d", "e", "s">>) \cup At(l, <<"d", "e", "s", ".">>)
             \cup {i \in At(l, <<"d", "e", "s">>) : WordBoundary(l, i) /\ WordBoundary(l, i + 3)}
      [] t = "TripleDes" ->
             At(l, <<"3", "d", "e", "s">>) \cup At(l, <<"t", "r", "i", "p", "l", "e", "d", "e", "s">>) \cup At(l, <<"d", "e", "s", "e", "d", "e">>)
      [] t = "Rc4" -> At(l, <<"r", "c", "4">>) \cup At(l, <<"a", "r", "c", "f", "o", "u", "r">>)

\* C26: the column of every finding is the zero-based byte offset, in its line,
\* of the start of the match of the regular expression that produced the
\* finding, for every primitive, letter case and spelling; it is not the
\* place of some letter of the keyword and it is 0 only when the match
\* starts there.
C26_ColumnIsMatchStart ==
    (pc = "returned" /\ outcome.ok /\ Len(source.runs) = 1) =>
        LET l  == LineText(source, 1)
            vs == outcome.value.vulnerabilities
        IN  \A i \in 1..Len(vs) :
                /\ MatchStarts(vs[i].crypto_type, l) # {}
                /\ vs[i].column = ByteOffset(l, Min(MatchStarts(vs[i].crypto_type, l)))

\* the SHA-1 keyword stands in the line as a token of its own: no digit
\* follows it
Sha1Token(l) ==
    \/ \E i \in At(l, <<"s", "h", "a", "1">>) : i + 4 > Len(l) \/ ~IsDigit(l[i + 4])
    \/ \E i \in At(l, <<"s", "h", "a", "-", "1">>) : i + 5 > Len(l) \/ ~IsDigit(l[i + 5])

\* a letter, of ASCII or not
IsLetter(c) ==
    IsAsciiLetter(c) \/ (Len(c) > 1 /\ IsWordChar(c) /\ LowerChar(c) # UpperChar(c))

\* the DSA keyword stands in the line as a token of its own: no letter
\* follows it
DsaToken(l) ==
    \E i \in At(l, <<"d", "s", "a">>) : i + 3 > Len(l) \/ ~IsLetter(l[i + 3])

\* C27: a line in which the SHA-1 keyword or the DSA keyword stands as a
\* token of its own yields a finding of that primitive wherever the keyword
\* sits, also when it is the last text of the line.
C27_KeywordAtLineEnd ==
    (pc = "returned" /\ outcome.ok /\ Len(source.runs) = 1) =>
        LET l  == LineText(source, 1)
            vs == outcome.value.vulnerabilities
        IN  /\ Sha1Token(l) => \E i \in 1..Len(vs) : vs[i].crypto_type = "Sha1"
            /\ DsaToken(l) => \E i \in 1..Len(vs) : vs[i].crypto_type = "Dsa"

\* the primitives generate_remediations has a fix for
FixablePrimitives == {"Md5", "Sha1", "Rsa", "Des", "TripleDes"}

\* C28: with a valid file path generate_remediations handles every finding
\* exactly once: a finding of MD5, SHA-1, RSA, DES or 3DES gives one fix, a
\* finding of another primitive gives one warning and no fix, in the order
\* of the findings; fixes + warnings = findings, auto_fixable +
\* manual_review_required = fixes, and a fix is auto-applicable exactly
\* when its finding is MD5 or SHA-1.
C28_EveryFindingHandledOnce ==
    (pc = "remediated" /\ PathFault(answer.file_path) = "none") =>
        LET r       == answer.remediation
            vs      == result.vulnerabilities
            fixable == SelectSeq(vs, LAMBDA v : v.crypto_type \in FixablePrimitives)
            others  == SelectSeq(vs, LAMBDA v : v.crypto_type \notin FixablePrimitives)
            autos   == SelectSeq(vs, LAMBDA v : v.crypto_type \in {"Md5", "Sha1"})
        IN  /\ Len(r.fixes) = Len(fixable)
            /\ \A i \in 1..Len(fixable) :
                  /\ r.fixes[i].line = fixable[i].line
                  /\ r.fixes[i].column = fixable[i].column
                  /\ r.fixes[i].file_path = answer.file_path
                  /\ r.fixes[i].auto_applicable
                         <=> fixable[i].crypto_type \in {"Md5", "Sha1"}
            /\ Len(r.warnings) = Len(others)
            /\ \A i \in 1..Len(others) :
                  r.warnings[i] = <<"No automatic remediation available for ",
                                    CryptoType_to_string(others[i].crypto_type),
                                    " at line ", others[i].line>>
            /\ Len(r.fixes) + Len(r.warnings) = Len(vs)
            /\ r.summary.total_vulnerabilities = Len(vs)
            /\ r.summary.auto_fixable = Len(autos)
            /\ r.summary.auto_fixable + r.summary.manual_review_required = Len(r.fixes)

\* C28: three findings, an MD5 one, a 3DES one and one without a fix, were
\* remediated with a valid path: two fixes, one of them auto-applicable,
\* and one warning.
C28_Witness ==
    /\ pc = "remediated"
    /\ PathFault(answer.file_path) = "none"
    /\ Len(result.vulnerabilities) = 3
    /\ result.vulnerabilities[1].crypto_type = "Md5"
    /\ result.vulnerabilities[2].crypto_type = "TripleDes"
    /\ Len(answer.remediation.fixes) = 2
    /\ Len(answer.remediation.warnings) = 1
    /\ answer.remediation.summary.auto_fixable = 1
    /\ answer.remediation.summary.manual_review_required = 1

\* the findings (their indices) of primitive t on line n
FindingsAt(vs, t, n) == {i \in 1..Len(vs) : vs[i].crypto_type = t /\ vs[i].line = n}

\* C29: analyze emits at most one finding per primitive for a line, even
\* when several rules of the primitive match it, hence at most 10 findings
\* a line and at most 10 * lines_scanned in a result; a primitive's finding
\* is emitted for a line exactly when a rule of that primitive matches the
\* line, whatever other primitives match it.
C29_OneFindingPerPrimitive ==
    (pc = "returned" /\ outcome.ok) =>
        LET vs == outcome.value.vulnerabilities
        IN  /\ Len(vs) <= 10 * outcome.value.stats.lines_scanned
            /\ \A i \in 1..Len(vs) :
                  /\ Cardinality(FindingsAt(vs, vs[i].crypto_type, vs[i].line)) = 1
                  /\ Cardinality({j \in 1..Len(vs) : vs[j].line = vs[i].line}) <= 10
            /\ \A k \in 1..Len(source.runs) :
                  LET l     == LineText(source, k)
                      first == FirstLine(source, k)
                      last  == first + source.runs[k].count - 1
                  IN  \A t \in Range(CryptoTypes) :
                          IF MatchStarts(t, l) = {}
                          THEN \A i \in 1..Len(vs) :
                                   vs[i].crypto_type = t =>
                                       (vs[i].line < first \/ vs[i].line > last)
                          ELSE \A n \in first..last :
                                   Cardinality(FindingsAt(vs, t, n)) = 1

\* C29: a line matched by the generic RSA rule, the key-generation rule and
\* the key-size rule, and by rules of other primitives on the same source,
\* gave one RSA finding.
C29_Witness ==
    /\ pc = "returned"
    /\ outcome.ok
    /\ \E k \in 1..Len(source.runs) :
          LET l == LineText(source, k)
          IN  /\ RSA_PATTERN(l) /\ RSA_KEYGEN(l) /\ IsSome(RSA_KEY_SIZE(l))
              /\ Cardinality(FindingsAt(outcome.value.vulnerabilities, "Rsa",
                                        FirstLine(source, k))) = 1
    /\ \E i \in 1..Len(outcome.value.vulnerabilities) :
          outcome.value.vulnerabilities[i].crypto_type = "Md5"
    /\ Len(outcome.value.vulnerabilities) >= 10

\* C30: every finding of a result of analyze is High or Critical with a
\* risk score of 80, 85, 90, 95 or 100; a result with a finding has an
\* aggregate risk score of at least 80 and a compliance score of at most 20
\* in the SC-13 report, and rule set A never gives it Implemented / Other.
C30_FindingsAreSevere ==
    /\ (pc \in {"returned", "reported"} /\ outcome.ok) =>
           LET vs == outcome.value.vulnerabilities
           IN  /\ \A i \in 1..Len(vs) :
                      /\ vs[i].severity \in {"High", "Critical"}
                      /\ vs[i].risk_score \in {80, 85, 90, 95, 100}
               /\ Len(vs) > 0 =>
                      (outcome.value.risk_score >= 80 /\ outcome.value.risk_score <= 100)
    /\ (pc = "reported" /\ Len(result.vulnerabilities) > 0) =>
           /\ "panicked" \notin DOMAIN answer.summary
           /\ answer.summary.compliance_score = U32(100 - result.risk_score)
           /\ answer.summary.compliance_score.hi = 0
           /\ answer.summary.compliance_score.lo <= 20
           /\ answer.status # <<"Implemented", "Other">>
           /\ answer.status[1] = "PartiallyImplemented"

\* C30: a source whose findings are all High with score 80 was audited and
\* assessed: risk score 80, compliance score 20, PartiallyImplemented /
\* Other.
C30_Witness ==
    /\ pc = "reported"
    /\ Len(result.vulnerabilities) > 0
    /\ result.risk_score = 80
    /\ answer.summary.compliance_score = U32(20)
    /\ answer.status = <<"PartiallyImplemented", "Other">>

=============================================================================
